---- MODULE Spec2Model ----
(***************************************************************************)
(* A model of the crawl interpreter (src/src/interpreter.rs) and of the    *)
(* evaluation primitives it calls: the fact database (facts.rs), the dice  *)
(* engine (dice.rs), roll targets (rolls.rs) and tables (tables.rs).       *)
(*                                                                         *)
(* Rust strings on which the code works character by character (fact      *)
(* strings, roll-specifier lexemes, roll-target strings) are sequences of  *)
(* one-character strings; strings the code only stores and compares       *)
(* (identifiers, table names, reminders) are TLA+ strings.                 *)
(*                                                                         *)
(* Every evaluate_* method of Interpreter is an operator of the same name  *)
(* that maps the interpreter (a record `self`) to the SET of its possible  *)
(* outcomes [self |-> interpreter afterwards, result |-> ...]: one outcome *)
(* per way the dice can fall.  A result is Ok, Err (a CrawlError returned  *)
(* as a value), Panic (an unwrap()/expect()/index that unwinds through     *)
(* every caller) or StackOverflow (the process aborts).                    *)
(***************************************************************************)
EXTENDS Integers, Sequences, FiniteSets, TLC

\* ------------------------------------------------------------- bounds

\* Longest statement list handed to interpret.
MaxStatements == 3

\* Nested evaluate_procedure_call activations the thread's stack holds; the
\* code itself sets no limit.
StackLimit == 3

\* ------------------------------------------------------------ strings

None == <<>>

Some(v) == <<v>>

\* str::split_once(" "): the parts before and after the first delimiter.
split_once(s, delimiter) ==
    IF \E i \in 1..Len(s) : s[i] = delimiter
    THEN LET i == CHOOSE k \in 1..Len(s) :
                      /\ s[k] = delimiter
                      /\ \A j \in 1..(k - 1) : s[j] # delimiter
         IN  Some(<<SubSeq(s, 1, i - 1), SubSeq(s, i + 1, Len(s))>>)
    ELSE None

\* ------------------------------------------------------------ results

OkRecord(r) == [tag |-> "Ok", record |-> r]

OkBool(b) == [tag |-> "Ok", value |-> b]

InterpreterError(why) == [tag |-> "Err", error |-> "InterpreterError", reason |-> why]

ParserError(tok) == [tag |-> "Err", error |-> "ParserError", token |-> tok]

Panic(why) == [tag |-> "Panic", reason |-> why]

StackOverflow == [tag |-> "StackOverflow"]

\* A result that ends the process instead of being returned to the caller.
Aborts(result) == result.tag \in {"Panic", "StackOverflow"}

\* -------------------------------------------------------------- facts

\* impl TryFrom<String> for Fact
FactTryFrom(value) ==
    LET first == split_once(value, " ") IN
    IF first # None
    THEN LET entity == first[1][1]
             tail == first[1][2]
             second == split_once(tail, " ")
         IN  IF second # None
             THEN [tag |-> "Ok",
                   fact |-> [entity |-> entity,
                             attribute |-> second[1][1],
                             value |-> second[1][2]]]
             ELSE InterpreterError("couldn't convert to Fact")
    ELSE InterpreterError("couldn't convert to Fact")

\* FactDatabase::check
FactCheck(facts, fact) == fact \in facts

\* A set that replaces the database's content by the one fact.
FactSetAlone(facts, fact) == {fact}

\* FactDatabase::set
FactSet(facts, fact) == facts \cup {fact}

\* FactDatabase::clear
FactClear(facts, fact) == facts \ {fact}

\* --------------------------------------------------------------- dice

I32Max == 2147483647

Digits == {"0", "1", "2", "3", "4", "5", "6", "7", "8", "9"}

DigitValue(c) ==
    CASE c = "0" -> 0 [] c = "1" -> 1 [] c = "2" -> 2 [] c = "3" -> 3
      [] c = "4" -> 4 [] c = "5" -> 5 [] c = "6" -> 6 [] c = "7" -> 7
      [] c = "8" -> 8 [] c = "9" -> 9

\* The digits' value accumulated as i32's FromStr does, with checked
\* arithmetic: upwards for a positive number, downwards for a negative one.
RECURSIVE CheckedDecimal(_, _, _)
CheckedDecimal(digits, acc, negative) ==
    IF digits = <<>> THEN Some(acc)
    ELSE LET d == DigitValue(Head(digits)) IN
         IF negative
         THEN IF acc < -((I32Max - (IF d > 0 THEN d - 1 ELSE 0)) \div 10)
              THEN None
              ELSE CheckedDecimal(Tail(digits), 10 * acc - d, negative)
         ELSE IF acc > (I32Max - d) \div 10
              THEN None
              ELSE CheckedDecimal(Tail(digits), 10 * acc + d, negative)

\* str::parse::<i32>(): an optional sign, then one or more digits, in range;
\* None for a ParseIntError.
ParseI32(s) ==
    LET signed == s # <<>> /\ s[1] \in {"+", "-"}
        digits == IF signed THEN Tail(s) ELSE s
    IN  IF digits = <<>> \/ \E i \in 1..Len(digits) : digits[i] \notin Digits
        THEN None
        ELSE CheckedDecimal(digits, 0, signed /\ s[1] = "-")

\* The length of the run of digits of s that starts at position i.
RECURSIVE DigitRun(_, _)
DigitRun(s, i) ==
    IF i <= Len(s) /\ s[i] \in Digits THEN 1 + DigitRun(s, i + 1) ELSE 0

\* Regex (?<n_dice>\d+)*d(?<n_sides>\d+) and Regex::captures: the leftmost
\* match's named groups, None when nothing matches.
RollSpecifierCaptures(spec) ==
    LET MatchesAt(i) ==
            LET k == DigitRun(spec, i)
            IN  /\ i + k <= Len(spec)
                /\ spec[i + k] = "d"
                /\ DigitRun(spec, i + k + 1) >= 1
    IN  IF \E i \in 1..Len(spec) : MatchesAt(i)
        THEN LET i == CHOOSE m \in 1..Len(spec) :
                          MatchesAt(m) /\ \A j \in 1..(m - 1) : ~MatchesAt(j)
                 k == DigitRun(spec, i)
                 n == DigitRun(spec, i + k + 1)
             IN  Some([n_dice |-> IF k > 0 THEN Some(SubSeq(spec, i, i + k - 1))
                                  ELSE None,
                       n_sides |-> SubSeq(spec, i + k + 1, i + k + n)])
        ELSE None

\* impl TryFrom<&ModifiedRollSpecifier> for DiceRoll.  A DicePool is the
\* sequence of its dice's sides.
DiceRollTryFrom(value) ==
    IF value.base_roll_specifier.type = "RollSpecifier"
    THEN LET captures == RollSpecifierCaptures(value.base_roll_specifier.lexeme) IN
         IF captures = None THEN Panic("failed to parse roll specifier")
         ELSE IF captures[1].n_dice = None THEN Panic("no group named n_dice")
         ELSE LET n_dice == ParseI32(captures[1].n_dice[1])
                  n_sides == ParseI32(captures[1].n_sides)
              IN  IF n_dice = None THEN Panic("failed to parse n_dice")
                  ELSE IF n_sides = None THEN Panic("failed to parse n_sides")
                  ELSE [tag |-> "Ok",
                        dice_roll |-> [dice_pool |-> [i \in 1..n_dice[1] |-> n_sides[1]],
                                       modifier |-> value.modifier]]
    ELSE ParserError("ModifiedRollSpecifier")

\* Die::roll: gen_range(1..=sides) draws from 1..sides and panics on an
\* empty range.
DieRoll(sides) == 1..sides

\* DicePool::roll: every sequence of throws the pool can produce, one
\* throw per die.
RECURSIVE DicePoolRoll(_)
DicePoolRoll(dice) ==
    IF dice = <<>> THEN {<<>>}
    ELSE {<<throw>> \o rest : throw \in DieRoll(Head(dice)),
                              rest \in DicePoolRoll(Tail(dice))}

RECURSIVE SumSeq(_)
SumSeq(s) == IF s = <<>> THEN 0 ELSE Head(s) + SumSeq(Tail(s))

\* The i32 addition a + b overflows.
I32AddOverflows(a, b) ==
    \/ b > 0 /\ a > I32Max - b
    \/ b < 0 /\ a < (-I32Max - 1) - b

\* The i32 addition a + b in a build that does not check overflow: the sum
\* modulo 2^32.
I32WrappingAdd(a, b) ==
    IF b > 0 /\ a > I32Max - b THEN (a - I32Max - 1) + (b - I32Max - 1)
    ELSE IF b < 0 /\ a < (-I32Max - 1) - b THEN (a + I32Max + 1) + (b + I32Max + 1)
    ELSE a + b

\* DiceRoll::roll: the panics the roll can end in: a die without sides, or
\* unmodified_total + self.modifier overflowing in a build that checks it.
DiceRollRollPanics(dice_roll) ==
    {Panic("cannot sample empty range") :
         i \in {j \in 1..Len(dice_roll.dice_pool) : DieRoll(dice_roll.dice_pool[j]) = {}}}
    \cup {Panic("attempt to add with overflow") :
              throws \in {t \in DicePoolRoll(dice_roll.dice_pool) :
                              I32AddOverflows(SumSeq(t), dice_roll.modifier)}}

\* DiceRoll::roll: the DiceRollResults the roll can produce; none when some
\* die's roll panics.
DiceRollRoll(dice_roll) ==
    {[pool_result |-> throws,
      modifier |-> dice_roll.modifier,
      total |-> I32WrappingAdd(SumSeq(throws), dice_roll.modifier)] :
     throws \in DicePoolRoll(dice_roll.dice_pool)}

\* ------------------------------------------------------- roll targets

\* str::split(delimiter): the pieces between the delimiters, at least one.
RECURSIVE split(_, _)
split(s, delimiter) ==
    LET first == split_once(s, delimiter) IN
    IF first = None THEN <<s>>
    ELSE <<first[1][1]>> \o split(first[1][2], delimiter)

\* str::trim_matches(c): without the leading and the trailing run of c.
RECURSIVE trim_matches(_, _)
trim_matches(s, c) ==
    IF s # <<>> /\ s[1] = c THEN trim_matches(Tail(s), c)
    ELSE IF s # <<>> /\ s[Len(s)] = c THEN trim_matches(SubSeq(s, 1, Len(s) - 1), c)
    ELSE s

\* impl TryFrom<&str> for RollTarget
RollTargetTryFrom(value) ==
    LET s == split(value, "-") IN
    CASE Len(s) = 1 ->
           LET is_roll_over == s[1] # <<>> /\ s[1][Len(s[1])] = "+"
               n == IF is_roll_over THEN trim_matches(s[1], "+") ELSE s[1]
               num == ParseI32(n)
           IN  IF num = None THEN Panic("roll target should be a number")
               ELSE IF is_roll_over
               THEN [tag |-> "Ok", target |-> [type |-> "OverOrEqual", n |-> num[1]]]
               ELSE [tag |-> "Ok", target |-> [type |-> "Num", n |-> num[1]]]
      [] Len(s) = 2 ->
           LET range_min == ParseI32(s[1])
               range_max == ParseI32(s[2])
           IN  IF range_min = None THEN Panic("range min should be a number")
               ELSE IF range_max = None THEN Panic("range max should be a number")
               ELSE [tag |-> "Ok",
                     target |-> [type |-> "NumRange", min |-> range_min[1],
                                 max |-> range_max[1]]]
      [] OTHER -> InterpreterError("cannot convert to RollTarget")

\* ------------------------------------------------------------- tables

\* The integers an entry's RollTarget is indexed under (the match of
\* impl From<Vec<TableEntry>> for Table).
EntryRollTargets(roll_target) ==
    CASE roll_target.type = "Num" -> {roll_target.n}
      [] roll_target.type = "NumRange" -> roll_target.min..roll_target.max
      [] roll_target.type = "OverOrEqual" -> {roll_target.n}

\* Table::new; roll_targets maps a target to the 0-based index of its entry.
TableNew(entries, roll_targets) ==
    IF DOMAIN roll_targets = {} THEN Panic("called Option::unwrap() on a None value")
    ELSE LET keys == DOMAIN roll_targets IN
         [tag |-> "Ok",
          table |-> [entries |-> entries,
                     roll_targets |-> roll_targets,
                     min_target |-> CHOOSE k \in keys : \A j \in keys : k <= j,
                     max_target |-> CHOOSE k \in keys : \A j \in keys : k >= j,
                     clamp_to_min |-> TRUE,
                     clamp_to_max |-> TRUE]]

\* The loop of impl From<Vec<TableEntry>> for Table, had insert kept the
\* index a target already has.
RECURSIVE TableFromLoopKeepingFirst(_, _, _)
TableFromLoopKeepingFirst(value, idx, roll_targets) ==
    IF idx >= Len(value) THEN roll_targets
    ELSE LET covered == EntryRollTargets(value[idx + 1].roll_target) IN
         TableFromLoopKeepingFirst(
             value, idx + 1,
             [k \in DOMAIN roll_targets \cup covered |->
                 IF k \in DOMAIN roll_targets THEN roll_targets[k] ELSE idx])

\* The loop of impl From<Vec<TableEntry>> for Table: the index after the
\* entries from position idx + 1 on were inserted into roll_targets.
RECURSIVE TableFromLoop(_, _, _)
TableFromLoop(value, idx, roll_targets) ==
    IF idx >= Len(value) THEN roll_targets
    ELSE LET covered == EntryRollTargets(value[idx + 1].roll_target) IN
         TableFromLoop(value, idx + 1,
                       [k \in DOMAIN roll_targets \cup covered |->
                           IF k \in covered THEN idx ELSE roll_targets[k]])

\* impl From<Vec<TableEntry>> for Table
TableFrom(value) == TableNew(value, TableFromLoop(value, 0, <<>>))

\* Table::get_value_for_target
TableGetValueForTarget(table, target) ==
    IF target \in DOMAIN table.roll_targets
    THEN [tag |-> "Ok", entry |-> table.entries[table.roll_targets[target] + 1]]
    ELSE InterpreterError("target not a valid index for table")

\* Table::roll once the dice are rolled, had it not clamped the total.
TableRollValueUnclamped(table, total) ==
    IF total \in DOMAIN table.roll_targets
    THEN [tag |-> "Ok", entry |-> table.entries[table.roll_targets[total] + 1]]
    ELSE InterpreterError("roll not a valid index for table")

\* Table::roll once the dice are rolled: the match on roll_value.
TableRollValue(table, total) ==
    IF total \in DOMAIN table.roll_targets
    THEN [tag |-> "Ok", entry |-> table.entries[table.roll_targets[total] + 1]]
    ELSE IF total < table.min_target /\ table.clamp_to_min
    THEN TableGetValueForTarget(table, table.min_target)
    ELSE IF total > table.max_target /\ table.clamp_to_max
    THEN TableGetValueForTarget(table, table.max_target)
    ELSE InterpreterError("roll not a valid index for table")

\* Table::roll: the results the roll can produce; a panic when a die of the
\* roll cannot be rolled.
TableRoll(table, dice) ==
    DiceRollRollPanics(dice)
        \cup {TableRollValue(table, roll_result.total) :
                  roll_result \in DiceRollRoll(dice)}

\* Table::auto_roll
TableAutoRoll(table) ==
    TableRoll(table, [dice_pool |-> <<table.max_target>>, modifier |-> 0])

\* Table::load.  Files is the file system the CSV reader sees: each file
\* that exists, as its rows <<roll target string, value string>>.
A == <<"a">>

B == <<"b">>

Files == [weather |-> << <<<<"1">>, A>>, <<<<"3">>, B>> >>]

\* Table::load: Err (a Box<dyn Error>) when the file cannot be opened, a panic
\* when a row's roll target does not parse (try_into().unwrap()).
RECURSIVE TableLoadRows(_, _)
TableLoadRows(rows, entries) ==
    IF rows = <<>> THEN [tag |-> "Ok", entries |-> entries]
    ELSE LET roll_target == RollTargetTryFrom(Head(rows)[1]) IN
         IF roll_target.tag = "Panic" THEN roll_target
         ELSE IF roll_target.tag = "Err"
         THEN Panic("called Result::unwrap() on an Err value")
         ELSE TableLoadRows(Tail(rows),
                            Append(entries, [roll_target |-> roll_target.target,
                                             value |-> Head(rows)[2]]))

TableLoad(filepath) ==
    IF filepath \notin DOMAIN Files
    THEN [tag |-> "Err", error |-> "io::Error", reason |-> "No such file or directory"]
    ELSE LET rows == TableLoadRows(Files[filepath], <<>>) IN
         IF rows.tag = "Ok" THEN TableFrom(rows.entries) ELSE rows

\* ------------------------------------------------ string interpolation

DigitChar(d) ==
    CASE d = 0 -> "0" [] d = 1 -> "1" [] d = 2 -> "2" [] d = 3 -> "3"
      [] d = 4 -> "4" [] d = 5 -> "5" [] d = 6 -> "6" [] d = 7 -> "7"
      [] d = 8 -> "8" [] d = 9 -> "9"

RECURSIVE NatDebug(_)
NatDebug(n) ==
    IF n < 10 THEN <<DigitChar(n)>>
    ELSE NatDebug(n \div 10) \o <<DigitChar(n % 10)>>

\* {:?} of an i32
I32Debug(n) == IF n < 0 THEN <<"-">> \o NatDebug(-n) ELSE NatDebug(n)

\* {:?} of a String: quoted, with quotes and backslashes escaped.
RECURSIVE StrEscape(_)
StrEscape(s) ==
    IF s = <<>> THEN <<>>
    ELSE (IF Head(s) \in {"\"", "\\"} THEN <<"\\", Head(s)>> ELSE <<Head(s)>>)
         \o StrEscape(Tail(s))

StrDebug(s) == <<"\"">> \o StrEscape(s) \o <<"\"">>

\* {:?} of a StatementRecord (#[derive(Debug)]), for the records of the
\* expressions the parser embeds in a string: a dice roll and a table roll.
StatementRecordDebug(record) ==
    CASE record.type = "NontargetedRoll" ->
           <<"N", "o", "n", "t", "a", "r", "g", "e", "t", "e", "d",
             "R", "o", "l", "l", "(">> \o I32Debug(record.total) \o <<")">>
      [] record.type = "TableRoll" ->
           <<"T", "a", "b", "l", "e", "R", "o", "l", "l", "(">>
           \o StrDebug(record.value) \o <<")">>

\* Regex \{.*\} and Regex::replace: the leftmost match, '{' up to the last
\* '}' of the same line, is replaced by the replacement; text without a
\* match is returned as it is.  (The replacement holds no '$'.)
RegexReplace(text, replacement) ==
    LET LineEnd(i) ==
            IF \E k \in i..Len(text) : text[k] = "\n"
            THEN CHOOSE k \in i..Len(text) :
                     text[k] = "\n" /\ \A j \in i..(k - 1) : text[j] # "\n"
            ELSE Len(text) + 1
        MatchesAt(i) ==
            text[i] = "{" /\ \E j \in (i + 1)..(LineEnd(i) - 1) : text[j] = "}"
    IN  IF \E i \in 1..Len(text) : MatchesAt(i)
        THEN LET i == CHOOSE m \in 1..Len(text) :
                          MatchesAt(m) /\ \A k \in 1..(m - 1) : ~MatchesAt(k)
                 j == CHOOSE m \in (i + 1)..(LineEnd(i) - 1) :
                          /\ text[m] = "}"
                          /\ \A k \in (m + 1)..(LineEnd(i) - 1) : text[k] # "}"
             IN  SubSeq(text, 1, i - 1) \o replacement \o SubSeq(text, j + 1, Len(text))
        ELSE text

\* -------------------------------------------------------- interpreter

\* An Interpreter `self` is [procedures, tables, persistent_facts,
\* local_facts] plus two fields that observe an evaluation without taking
\* part in it: depth, the number of evaluate_procedure_call activations on
\* the stack, and log, the calls, returns, rolls and consequents so far.

Outcome(self, result) == [self |-> self, result |-> result]

\* A call a method makes came back with Ok and the method goes on.  Any
\* other outcome is the method's own: an Err leaves through the ? operator
\* and a panic unwinds, both with the interpreter as the call left it.
Returned(o) == o.result.tag = "Ok"

Logged(self, event) == [self EXCEPT !.log = Append(@, event)]

CallEvent(ev, depth, identifier, facts) ==
    [ev |-> ev, depth |-> depth, identifier |-> identifier, local_facts |-> facts]

\* The interpreter as an activation at `depth` leaves it, logged.
Left(self, ev, depth, identifier) ==
    Logged([self EXCEPT !.depth = depth],
           CallEvent(ev, depth, identifier, self.local_facts))

\* HashMap::insert
MapInsert(map, key, value) ==
    [k \in DOMAIN map \cup {key} |-> IF k = key THEN value ELSE map[k]]

\* Interpreter::roll_result_matches_target
roll_result_matches_target(roll_result, target) ==
    CASE target.type = "Num" -> OkBool(roll_result.total = target.n)
      [] target.type = "NumRange" ->
           OkBool(target.min <= roll_result.total /\ roll_result.total <= target.max)
      [] OTHER -> InterpreterError("invalid roll target")

\* The two lines every rolling method starts with: the specifier's
\* conversion (left through ? on an Err) and DiceRoll::roll, one outcome
\* for each DiceRollResult.
Rolled(self, modified_roll_specifier) ==
    LET roll == DiceRollTryFrom(modified_roll_specifier) IN
    IF roll.tag # "Ok" THEN {Outcome(self, roll)}
    ELSE {Outcome(self, panic) : panic \in DiceRollRollPanics(roll.dice_roll)}
         \cup {Outcome(Logged(self, [ev |-> "roll", depth |-> self.depth,
                                     total |-> roll_result.total]),
                       [tag |-> "Ok", roll_result |-> roll_result]) :
               roll_result \in DiceRollRoll(roll.dice_roll)}

\* Interpreter::evaluate_dice_roll
evaluate_dice_roll(self, target, modified_roll_specifier) ==
    {IF Returned(rolled)
     THEN Outcome(rolled.self,
                  roll_result_matches_target(rolled.result.roll_result, target))
     ELSE rolled :
     rolled \in Rolled(self, modified_roll_specifier)}

\* Interpreter::evaluate_nontargeted_roll
evaluate_nontargeted_roll(self, modified_roll_specifier) ==
    {IF Returned(rolled)
     THEN Outcome(rolled.self,
                  OkRecord([type |-> "NontargetedRoll",
                            total |-> rolled.result.roll_result.total]))
     ELSE rolled :
     rolled \in Rolled(self, modified_roll_specifier)}

\* Interpreter::evaluate_check_persistent_fact
evaluate_check_persistent_fact(self, fact) ==
    LET converted == FactTryFrom(fact) IN
    IF converted.tag # "Ok"
    THEN {Outcome(self, Panic("called Result::unwrap() on an Err value"))}
    ELSE {Outcome(self, OkBool(FactCheck(self.persistent_facts, converted.fact)))}

\* Interpreter::evaluate_set_persistent_fact
evaluate_set_persistent_fact(self, fact) ==
    LET converted == FactTryFrom(fact) IN
    IF converted.tag # "Ok"
    THEN {Outcome(self, Panic("called Result::unwrap() on an Err value"))}
    ELSE {Outcome([self EXCEPT !.persistent_facts = FactSet(@, converted.fact)],
                  OkRecord([type |-> "SetPersistentFact", fact |-> fact]))}

\* Interpreter::evaluate_clear_persistent_fact
evaluate_clear_persistent_fact(self, fact) ==
    LET converted == FactTryFrom(fact) IN
    IF converted.tag # "Ok"
    THEN {Outcome(self, Panic("called Result::unwrap() on an Err value"))}
    ELSE {Outcome([self EXCEPT !.persistent_facts = FactClear(@, converted.fact)],
                  OkRecord([type |-> "ClearPersistentFact", fact |-> fact]))}

\* Interpreter::evaluate_check_fact
evaluate_check_fact(self, fact) ==
    LET converted == FactTryFrom(fact) IN
    IF converted.tag # "Ok"
    THEN {Outcome(self, Panic("called Result::unwrap() on an Err value"))}
    ELSE {Outcome(self, OkBool(FactCheck(self.local_facts, converted.fact)))}

\* evaluate_clear_fact clearing from the persistent store.
evaluate_clear_fact_from_persistent(self, fact) ==
    LET converted == FactTryFrom(fact) IN
    IF converted.tag # "Ok"
    THEN {Outcome(self, Panic("called Result::unwrap() on an Err value"))}
    ELSE {Outcome([self EXCEPT !.persistent_facts = FactClear(@, converted.fact)],
                  OkRecord([type |-> "ClearFact", fact |-> fact]))}

\* Interpreter::evaluate_clear_fact
evaluate_clear_fact(self, fact) ==
    LET converted == FactTryFrom(fact) IN
    IF converted.tag # "Ok"
    THEN {Outcome(self, Panic("called Result::unwrap() on an Err value"))}
    ELSE {Outcome([self EXCEPT !.local_facts = FactClear(@, converted.fact)],
                  OkRecord([type |-> "ClearFact", fact |-> fact]))}

\* Interpreter::evaluate_reminder
evaluate_reminder(self, reminder) ==
    {Outcome(self, OkRecord([type |-> "Reminder", reminder |-> reminder]))}

\* Interpreter::evaluate_load_table
evaluate_load_table(self, table_name) ==
    LET table_load == TableLoad(table_name) IN
    CASE table_load.tag = "Ok" ->
           {Outcome([self EXCEPT !.tables = MapInsert(@, table_name, table_load.table)],
                    OkRecord([type |-> "LoadTable", table_name |-> table_name]))}
      [] table_load.tag = "Err" ->
           {Outcome(self, InterpreterError("Failed to load table"))}
      [] OTHER -> {Outcome(self, table_load)}

\* Interpreter::evaluate_table_roll
evaluate_table_roll(self, table_name) ==
    IF table_name \notin DOMAIN self.tables
    THEN {Outcome(self, Panic("called Option::unwrap() on a None value"))}
    ELSE {Outcome(self, IF table_roll_result.tag = "Ok"
                        THEN OkRecord([type |-> "TableRoll",
                                       value |-> table_roll_result.entry.value])
                        ELSE table_roll_result) :
          table_roll_result \in TableAutoRoll(self.tables[table_name])}

\* Interpreter::evaluate_antecedent
evaluate_antecedent(self, antecedent) ==
    CASE antecedent.type = "CheckFact" -> evaluate_check_fact(self, antecedent.fact)
      [] antecedent.type = "CheckPersistentFact" ->
           evaluate_check_persistent_fact(self, antecedent.fact)
      [] antecedent.type = "DiceRoll" ->
           evaluate_dice_roll(self, antecedent.target, antecedent.roll_specifier)

\* evaluate_procedure_definition inserting only when the name is free, as
\* HashMap's entry(..).or_insert(..) would.
evaluate_procedure_definition_keeping_earlier(self, declaration, body) ==
    LET ident == declaration
        def == [identifier |-> ident, body |-> body]
    IN  {Outcome(IF ident \in DOMAIN self.procedures THEN self
                 ELSE [self EXCEPT !.procedures = MapInsert(@, def.identifier, def)],
                 OkRecord([type |-> "ProcedureDefinition", identifier |-> ident]))}

\* Interpreter::evaluate_procedure_definition
evaluate_procedure_definition(self, declaration, body) ==
    LET ident == declaration
        def == [identifier |-> ident, body |-> body]
    IN  {Outcome([self EXCEPT !.procedures = MapInsert(@, def.identifier, def)],
                 OkRecord([type |-> "ProcedureDefinition", identifier |-> ident]))}

RECURSIVE evaluate_statement(_, _)
RECURSIVE evaluate_consequent(_, _)
RECURSIVE evaluate_if_then(_, _, _)
RECURSIVE evaluate_matching_roll(_, _, _)
RECURSIVE matching_roll_arms(_, _, _, _)
RECURSIVE evaluate_procedure_call(_, _)
RECURSIVE procedure_call_body(_, _, _, _)
RECURSIVE evaluate_set_fact(_, _)
RECURSIVE evaluate_str(_, _)
RECURSIVE evaluate_str_expressions(_, _, _, _)

\* evaluate_procedure_call without its line `self.local_facts = outer_facts`.
evaluate_procedure_call_without_restore(self, procedure_identifier) ==
    LET outer_facts == self.local_facts IN
    IF self.depth >= StackLimit THEN {Outcome(self, StackOverflow)}
    ELSE IF procedure_identifier \notin DOMAIN self.procedures
    THEN {Outcome(self, Panic("called Option::unwrap() on a None value"))}
    ELSE LET proc == self.procedures[procedure_identifier]
             entered == Logged([self EXCEPT !.depth = @ + 1],
                               CallEvent("call", self.depth, procedure_identifier,
                                         outer_facts))
         IN  {CASE o.result.tag = "Ok" ->
                     Outcome(Left(o.self, "return", self.depth, procedure_identifier),
                             OkRecord([type |-> "ProcedureCall",
                                       identifier |-> procedure_identifier,
                                       records |-> o.result.records]))
                [] o.result.tag = "Err" ->
                     Outcome(Left(o.self, "error", self.depth, procedure_identifier),
                             o.result)
                [] OTHER -> o :
              o \in procedure_call_body(entered, proc.body, 1, <<>>)}

\* evaluate_procedure_call giving the callee a scope of its own for every
\* field: the caller's persistent facts and procedures come back with its
\* local facts.
evaluate_procedure_call_restoring_all(self, procedure_identifier) ==
    LET outer_facts == self.local_facts IN
    IF self.depth >= StackLimit THEN {Outcome(self, StackOverflow)}
    ELSE IF procedure_identifier \notin DOMAIN self.procedures
    THEN {Outcome(self, Panic("called Option::unwrap() on a None value"))}
    ELSE LET proc == self.procedures[procedure_identifier]
             entered == Logged([self EXCEPT !.depth = @ + 1],
                               CallEvent("call", self.depth, procedure_identifier,
                                         outer_facts))
         IN  {CASE o.result.tag = "Ok" ->
                     Outcome(Left([o.self EXCEPT !.local_facts = outer_facts,
                                                 !.persistent_facts = self.persistent_facts,
                                                 !.procedures = self.procedures],
                                  "return", self.depth, procedure_identifier),
                             OkRecord([type |-> "ProcedureCall",
                                       identifier |-> procedure_identifier,
                                       records |-> o.result.records]))
                [] o.result.tag = "Err" ->
                     Outcome(Left(o.self, "error", self.depth, procedure_identifier),
                             o.result)
                [] OTHER -> o :
              o \in procedure_call_body(entered, proc.body, 1, <<>>)}

\* matching_roll_arms without the return inside the loop: the scan goes on
\* after a match and the last matching arm's record is the one returned.
RECURSIVE matching_roll_arms_without_return(_, _, _, _)
matching_roll_arms_without_return(self, roll_result, arms, i) ==
    IF i > Len(arms)
    THEN {Outcome(self, OkRecord([type |-> "MatchingRoll",
                                  matched_target |-> None,
                                  consequent |-> None]))}
    ELSE LET matches == roll_result_matches_target(roll_result, arms[i].target) IN
         IF matches.tag # "Ok" THEN {Outcome(self, matches)}
         ELSE IF matches.value
         THEN UNION {IF Returned(c)
                     THEN {IF Returned(later)
                              /\ later.result.record.matched_target = None
                           THEN Outcome(later.self,
                                        OkRecord([type |-> "MatchingRoll",
                                                  matched_target |-> Some(arms[i].target),
                                                  consequent |-> Some(c.result.record)]))
                           ELSE later :
                           later \in matching_roll_arms_without_return(
                                         c.self, roll_result, arms, i + 1)}
                     ELSE {c} :
                     c \in evaluate_consequent(self, arms[i].consequent)}
         ELSE matching_roll_arms_without_return(self, roll_result, arms, i + 1)

\* evaluate_if_then evaluating its consequent whatever the antecedent is.
evaluate_if_then_always(self, antecedent, consequent) ==
    UNION {IF Returned(a)
           THEN {IF Returned(c)
                 THEN Outcome(c.self,
                              OkRecord([type |-> "IfThen",
                                        antecedent |-> a.result.value,
                                        consequent |->
                                            IF a.result.value
                                            THEN Some(c.result.record)
                                            ELSE None]))
                 ELSE c :
                 c \in evaluate_consequent(a.self, consequent)}
           ELSE {a} :
           a \in evaluate_antecedent(self, antecedent)}

\* Interpreter::evaluate_statement
evaluate_statement(self, statement) ==
    CASE statement.type = "ClearFact" -> evaluate_clear_fact(self, statement.fact)
      [] statement.type = "ClearPersistentFact" ->
           evaluate_clear_persistent_fact(self, statement.fact)
      [] statement.type = "IfThen" ->
           evaluate_if_then(self, statement.antecedent, statement.consequent)
      [] statement.type = "LoadTable" -> evaluate_load_table(self, statement.table_name)
      [] statement.type = "MatchingRoll" ->
           evaluate_matching_roll(self, statement.roll_specifier, statement.arms)
      [] statement.type = "Procedure" ->
           evaluate_procedure_definition(self, statement.declaration, statement.body)
      [] statement.type = "ProcedureCall" ->
           evaluate_procedure_call(self, statement.identifier)
      [] statement.type = "Reminder" -> evaluate_reminder(self, statement.reminder)
      [] statement.type = "SetFact" -> evaluate_set_fact(self, statement.crawl_str)
      [] statement.type = "SetPersistentFact" ->
           evaluate_set_persistent_fact(self, statement.fact)
      [] statement.type = "TableRoll" -> evaluate_table_roll(self, statement.table_name)
      [] statement.type = "NontargetedRoll" ->
           evaluate_nontargeted_roll(self, statement.specifier)

\* evaluate_consequent evaluating a consequent of any kind as a statement.
evaluate_consequent_of_any_kind(self, consequent) ==
    evaluate_statement(Logged(self, [ev |-> "consequent", depth |-> self.depth,
                                     statement |-> consequent]),
                       consequent)

\* Interpreter::evaluate_consequent
evaluate_consequent(self, consequent) ==
    LET entered == Logged(self, [ev |-> "consequent", depth |-> self.depth,
                                 statement |-> consequent])
    IN  CASE consequent.type = "ClearFact" -> evaluate_clear_fact(entered, consequent.fact)
          [] consequent.type = "ClearPersistentFact" ->
               evaluate_clear_persistent_fact(entered, consequent.fact)
          [] consequent.type = "ProcedureCall" ->
               evaluate_procedure_call(entered, consequent.identifier)
          [] consequent.type = "SetFact" ->
               evaluate_set_fact(entered, consequent.crawl_str)
          [] consequent.type = "SetPersistentFact" ->
               evaluate_set_persistent_fact(entered, consequent.fact)
          [] consequent.type = "Reminder" -> evaluate_reminder(entered, consequent.reminder)
          [] consequent.type = "TableRoll" ->
               evaluate_table_roll(entered, consequent.table_name)
          [] OTHER ->
               {Outcome(entered, InterpreterError("Invalid statement as consequent"))}

\* Interpreter::evaluate_if_then
evaluate_if_then(self, antecedent, consequent) ==
    UNION {IF ~Returned(a) THEN {a}
           ELSE IF a.result.value
           THEN {IF Returned(c)
                 THEN Outcome(c.self,
                              OkRecord([type |-> "IfThen",
                                        antecedent |-> a.result.value,
                                        consequent |-> Some(c.result.record)]))
                 ELSE c :
                 c \in evaluate_consequent(a.self, consequent)}
           ELSE {Outcome(a.self, OkRecord([type |-> "IfThen",
                                           antecedent |-> a.result.value,
                                           consequent |-> None]))} :
           a \in evaluate_antecedent(self, antecedent)}

\* The loop over the arms of Interpreter::evaluate_matching_roll, from arm i.
matching_roll_arms(self, roll_result, arms, i) ==
    IF i > Len(arms)
    THEN {Outcome(self, OkRecord([type |-> "MatchingRoll",
                                  matched_target |-> None,
                                  consequent |-> None]))}
    ELSE LET matches == roll_result_matches_target(roll_result, arms[i].target) IN
         IF matches.tag # "Ok" THEN {Outcome(self, matches)}
         ELSE IF matches.value
         THEN {IF Returned(c)
               THEN Outcome(c.self,
                            OkRecord([type |-> "MatchingRoll",
                                      matched_target |-> Some(arms[i].target),
                                      consequent |-> Some(c.result.record)]))
               ELSE c :
               c \in evaluate_consequent(self, arms[i].consequent)}
         ELSE matching_roll_arms(self, roll_result, arms, i + 1)

\* Interpreter::evaluate_matching_roll
evaluate_matching_roll(self, modified_roll_specifier, arms) ==
    UNION {IF Returned(rolled)
           THEN matching_roll_arms(rolled.self, rolled.result.roll_result, arms, 1)
           ELSE {rolled} :
           rolled \in Rolled(self, modified_roll_specifier)}

\* The loop over the body taking the statements last to first.
RECURSIVE procedure_call_body_backwards(_, _, _, _)
procedure_call_body_backwards(self, body, i, records) ==
    IF i > Len(body) THEN {Outcome(self, [tag |-> "Ok", records |-> records])}
    ELSE UNION {IF Returned(o)
                THEN procedure_call_body_backwards(o.self, body, i + 1,
                                                   Append(records, o.result.record))
                ELSE {o} :
                o \in evaluate_statement(self, body[Len(body) - i + 1])}

\* The loop over the body of Interpreter::evaluate_procedure_call, from
\* statement i, with the records pushed so far.
procedure_call_body(self, body, i, records) ==
    IF i > Len(body) THEN {Outcome(self, [tag |-> "Ok", records |-> records])}
    ELSE UNION {IF Returned(o)
                THEN procedure_call_body(o.self, body, i + 1,
                                         Append(records, o.result.record))
                ELSE {o} :
                o \in evaluate_statement(self, body[i])}

\* evaluate_procedure_call giving the callee no local facts of its caller.
evaluate_procedure_call_with_fresh_scope(self, procedure_identifier) ==
    LET outer_facts == self.local_facts IN
    IF self.depth >= StackLimit THEN {Outcome(self, StackOverflow)}
    ELSE IF procedure_identifier \notin DOMAIN self.procedures
    THEN {Outcome(self, Panic("called Option::unwrap() on a None value"))}
    ELSE LET proc == self.procedures[procedure_identifier]
             entered == Logged([self EXCEPT !.depth = @ + 1, !.local_facts = {}],
                               CallEvent("call", self.depth, procedure_identifier,
                                         outer_facts))
         IN  {CASE o.result.tag = "Ok" ->
                     Outcome(Left([o.self EXCEPT !.local_facts = outer_facts],
                                  "return", self.depth, procedure_identifier),
                             OkRecord([type |-> "ProcedureCall",
                                       identifier |-> procedure_identifier,
                                       records |-> o.result.records]))
                [] o.result.tag = "Err" ->
                     Outcome(Left(o.self, "error", self.depth, procedure_identifier),
                             o.result)
                [] OTHER -> o :
              o \in procedure_call_body(entered, proc.body, 1, <<>>)}

\* Interpreter::evaluate_procedure_call.  The code bounds the recursion
\* nowhere: an activation the stack has no room for ends the process.  The
\* log gets the snapshot at the call, and local_facts as the call leaves
\* them: at its return, or at the ? that passes a body statement's Err on.
evaluate_procedure_call(self, procedure_identifier) ==
    LET outer_facts == self.local_facts IN
    IF self.depth >= StackLimit THEN {Outcome(self, StackOverflow)}
    ELSE IF procedure_identifier \notin DOMAIN self.procedures
    THEN {Outcome(self, Panic("called Option::unwrap() on a None value"))}
    ELSE LET proc == self.procedures[procedure_identifier]
             entered == Logged([self EXCEPT !.depth = @ + 1],
                               CallEvent("call", self.depth, procedure_identifier,
                                         outer_facts))
         IN  {CASE o.result.tag = "Ok" ->
                     Outcome(Left([o.self EXCEPT !.local_facts = outer_facts],
                                  "return", self.depth, procedure_identifier),
                             OkRecord([type |-> "ProcedureCall",
                                       identifier |-> procedure_identifier,
                                       records |-> o.result.records]))
                [] o.result.tag = "Err" ->
                     Outcome(Left(o.self, "error", self.depth, procedure_identifier),
                             o.result)
                [] OTHER -> o :
              o \in procedure_call_body(entered, proc.body, 1, <<>>)}

\* The loop over the expressions of Interpreter::evaluate_str, from
\* expression i: every round replaces in format_string, not in the string
\* the round before produced.
evaluate_str_expressions(self, s, i, replaced) ==
    IF i > Len(s.expressions) THEN {Outcome(self, [tag |-> "Ok", string |-> replaced])}
    ELSE UNION {IF Returned(o)
                THEN evaluate_str_expressions(
                         o.self, s, i + 1,
                         RegexReplace(s.format_string,
                                      StatementRecordDebug(o.result.record)))
                ELSE {o} :
                o \in evaluate_statement(self, s.expressions[i])}

\* Interpreter::evaluate_str
evaluate_str(self, s) ==
    CASE s.type = "Str" -> {Outcome(self, [tag |-> "Ok", string |-> s.raw_string])}
      [] s.type = "InterpolatedStr" ->
           evaluate_str_expressions(self, s, 1, s.format_string)

\* evaluate_set_fact storing the fact of the unevaluated string before it
\* evaluates the string.
evaluate_set_fact_storing_first(self, fact) ==
    {IF ~Returned(o) THEN o
     ELSE LET evaluated_fact == o.result.string
              converted == FactTryFrom(evaluated_fact)
          IN  IF converted.tag # "Ok"
              THEN Outcome(o.self, Panic("called Result::unwrap() on an Err value"))
              ELSE Outcome([o.self EXCEPT !.local_facts = FactSet(@, converted.fact)],
                           OkRecord([type |-> "SetFact", fact |-> evaluated_fact])) :
     o \in evaluate_str(
               [self EXCEPT !.local_facts =
                    @ \cup {FactTryFrom(s).fact :
                                s \in {s \in {IF fact.type = "Str" THEN fact.raw_string
                                                 ELSE fact.format_string} :
                                           FactTryFrom(s).tag = "Ok"}}],
               fact)}

\* Interpreter::evaluate_set_fact
evaluate_set_fact(self, fact) ==
    {IF ~Returned(o) THEN o
     ELSE LET evaluated_fact == o.result.string
              converted == FactTryFrom(evaluated_fact)
          IN  IF converted.tag # "Ok"
              THEN Outcome(o.self, Panic("called Result::unwrap() on an Err value"))
              ELSE Outcome([o.self EXCEPT !.local_facts = FactSet(@, converted.fact)],
                           OkRecord([type |-> "SetFact", fact |-> evaluated_fact])) :
     o \in evaluate_str(self, fact)}

\* ---------------------------------------------------------- programs

\* Statement, Antecedent, CrawlStr, Token (src/src/parser.rs, scanner.rs)
ClearFact(fact) == [type |-> "ClearFact", fact |-> fact]

ClearPersistentFact(fact) == [type |-> "ClearPersistentFact", fact |-> fact]

SetPersistentFact(fact) == [type |-> "SetPersistentFact", fact |-> fact]

Str(raw_string) == [type |-> "Str", raw_string |-> raw_string]

InterpolatedStr(format_string, expressions) ==
    [type |-> "InterpolatedStr", format_string |-> format_string,
     expressions |-> expressions]

SetFact(crawl_str) == [type |-> "SetFact", crawl_str |-> crawl_str]

IfThen(antecedent, consequent) ==
    [type |-> "IfThen", antecedent |-> antecedent, consequent |-> consequent]

LoadTable(table_name) == [type |-> "LoadTable", table_name |-> table_name]

TableRollStatement(table_name) == [type |-> "TableRoll", table_name |-> table_name]

MatchingRoll(specifier, arms) ==
    [type |-> "MatchingRoll", roll_specifier |-> specifier, arms |-> arms]

MatchingRollArm(target, consequent) == [target |-> target, consequent |-> consequent]

NontargetedRoll(specifier) == [type |-> "NontargetedRoll", specifier |-> specifier]

Procedure(declaration, body) ==
    [type |-> "Procedure", declaration |-> declaration, body |-> body]

ProcedureCall(identifier) == [type |-> "ProcedureCall", identifier |-> identifier]

Reminder(reminder) == [type |-> "Reminder", reminder |-> reminder]

CheckFact(fact) == [type |-> "CheckFact", fact |-> fact]

CheckPersistentFact(fact) == [type |-> "CheckPersistentFact", fact |-> fact]

DiceRoll(target, specifier) ==
    [type |-> "DiceRoll", target |-> target, roll_specifier |-> specifier]

Num(n) == [type |-> "Num", n |-> n]

NumRange(min, max) == [type |-> "NumRange", min |-> min, max |-> max]

ModifiedRollSpecifier(lexeme, modifier) ==
    [base_roll_specifier |-> [type |-> "RollSpecifier", lexeme |-> lexeme],
     modifier |-> modifier]

\* The fact strings of the programs: two that split into a triple, one with
\* a single space and one with none.
XIsY == <<"x", " ", "i", " ", "y">>

ZIsW == <<"z", " ", "i", " ", "w">>

OneSpace == <<"x", " ", "y">>

NoSpace == <<"x">>

\* 1d2
D2 == ModifiedRollSpecifier(<<"1", "d", "2">>, 0)

\* The bodies the programs give the procedures p, q and r.  q calls p, r
\* calls itself, and no procedure is ever named u.
SetsFacts == <<SetFact(Str(XIsY)), SetPersistentFact(ZIsW)>>

ClearsFacts == <<ClearFact(XIsY), ClearPersistentFact(XIsY), SetFact(Str(ZIsW))>>

CallsP == <<SetFact(Str(ZIsW)), ProcedureCall("p"),
            IfThen(CheckFact(ZIsW), SetPersistentFact(XIsY))>>

FailsLate == <<SetFact(Str(XIsY)), SetPersistentFact(XIsY), LoadTable("missing"),
               SetPersistentFact(ZIsW)>>

DefinesP == <<Procedure("p", ClearsFacts), SetPersistentFact(XIsY)>>

CallsItself == <<SetPersistentFact(XIsY), ProcedureCall("r")>>

\* A body that checks a fact of its caller, sets one of its own, and checks
\* the caller's again after a call of a procedure that clears it.
Inherits == <<IfThen(CheckFact(XIsY), SetPersistentFact(ZIsW)), SetFact(Str(ZIsW)),
              Procedure("p", ClearsFacts), ProcedureCall("p"),
              IfThen(CheckFact(XIsY), SetPersistentFact(XIsY))>>

\* SetFact statements with interpolated strings: one and two dice rolls
\* embedded, and a roll on the table weather, whose targets have a gap.
NumberIs == SetFact(InterpolatedStr(<<"n", " ", "i", " ", "{", "}">>,
                                    <<NontargetedRoll(D2)>>))

NumbersAre == SetFact(InterpolatedStr(<<"n", " ", "i", " ", "{", "}", " ", "{", "}">>,
                                      <<NontargetedRoll(D2), NontargetedRoll(D2)>>))

WeatherIs == SetFact(InterpolatedStr(<<"t", " ", "i", " ", "{", "}">>,
                                     <<TableRollStatement("weather")>>))

\* The statements a program is made of.
Statements ==
    {SetFact(Str(s)) : s \in {XIsY, OneSpace, NoSpace}}
    \cup {NumberIs, NumbersAre, WeatherIs}
    \cup {ClearFact(s) : s \in {XIsY, OneSpace, NoSpace}}
    \cup {SetPersistentFact(s) : s \in {XIsY, OneSpace, NoSpace}}
    \cup {ClearPersistentFact(s) : s \in {XIsY, OneSpace, NoSpace}}
    \cup {IfThen(CheckFact(XIsY), SetPersistentFact(ZIsW)),
          IfThen(CheckPersistentFact(XIsY), ProcedureCall("p")),
          IfThen(CheckFact(NoSpace), Reminder("never")),
          IfThen(CheckPersistentFact(OneSpace), Reminder("never")),
          IfThen(DiceRoll(Num(1), D2), SetFact(Str(ZIsW))),
          IfThen(DiceRoll(NumRange(1, 2), D2), LoadTable("weather"))}
    \cup {MatchingRoll(D2, <<MatchingRollArm(Num(1), SetFact(Str(XIsY))),
                             MatchingRollArm(NumRange(1, 2), SetPersistentFact(XIsY))>>),
          MatchingRoll(D2, <<MatchingRollArm(Num(3), SetFact(Str(XIsY)))>>)}
    \cup {Procedure("p", SetsFacts), Procedure("p", ClearsFacts),
          Procedure("q", CallsP), Procedure("q", FailsLate),
          Procedure("q", DefinesP), Procedure("r", CallsItself),
          Procedure("q", Inherits)}
    \cup {ProcedureCall(identifier) : identifier \in {"p", "q", "r", "u"}}
    \cup {LoadTable("weather"), LoadTable("missing")}
    \cup {TableRollStatement("weather"), TableRollStatement("unknown")}
    \cup {Reminder("players must eat rations daily")}
    \cup {NontargetedRoll(D2)}
    \cup {MatchingRoll(D2, <<MatchingRollArm(Num(1), Procedure("p", SetsFacts)),
                             MatchingRollArm(Num(2), NontargetedRoll(D2))>>),
          MatchingRoll(D2, <<MatchingRollArm(
                                 Num(1), IfThen(CheckFact(XIsY), SetFact(Str(ZIsW)))),
                             MatchingRollArm(
                                 Num(2), MatchingRoll(D2, <<MatchingRollArm(
                                                                Num(1),
                                                                SetFact(Str(XIsY)))>>))>>)}

\* ------------------------------------------------------------ scanner

\* const EOF_CHAR: char = '\0'
EOF_CHAR == "NUL"

\* char::is_alphabetic, for the letters the sources are written with.
Alphabetic ==
    {"a", "b", "c", "d", "e", "f", "g", "h", "i", "j", "k", "l", "m", "n",
     "o", "p", "q", "r", "s", "t", "u", "v", "w", "x", "y", "z"}
    \cup
    {"A", "B", "C", "D", "E", "F", "G", "H", "I", "J", "K", "L", "M", "N",
     "O", "P", "Q", "R", "S", "T", "U", "V", "W", "X", "Y", "Z"}

\* char::is_numeric, for the same sources.
is_numeric(c) == c \in Digits

is_alphabetic(c) == c \in Alphabetic

\* Token: a keyword or structural token; the tokens with a value follow.
Keyword(type) == [type |-> type]

Eof == Keyword("Eof")

Identifier(name) == [type |-> "Identifier", name |-> name]

StrToken(string) == [type |-> "Str", string |-> string]

RollSpecifier(lexeme) == [type |-> "RollSpecifier", lexeme |-> lexeme]

OkToken(token) == [tag |-> "Ok", token |-> token]

\* CrawlError::ScannerError
ScannerError(self, lexeme, reason) ==
    [tag |-> "Err", error |-> "ScannerError", position |-> self.position,
     line |-> self.line, lexeme |-> lexeme, reason |-> reason]

\* A Scanner's method leaves the scanner as `self` and returns `result`.
Scanned(self, result) == [self |-> self, result |-> result]

\* Scanner::new
ScannerNew(source) == [source |-> source, position |-> 0, line |-> 0, start |-> 0]

\* Scanner::is_at_end
scanner_is_at_end(self) == self.position >= Len(self.source)

\* Scanner::curr_char
curr_char(self) ==
    IF scanner_is_at_end(self) THEN EOF_CHAR ELSE self.source[self.position + 1]

\* Scanner::advance
scanner_advance(self) == [self EXCEPT !.position = @ + 1]

\* Scanner::peek
scanner_peek(self) ==
    IF scanner_is_at_end(self) THEN EOF_CHAR ELSE self.source[self.position + 1]

\* Scanner::peek_next
scanner_peek_next(self) ==
    IF self.position + 1 >= Len(self.source) THEN EOF_CHAR
    ELSE self.source[self.position + 2]

\* self.source[self.start..self.position]
Lexeme(self) == SubSeq(self.source, self.start + 1, self.position)

\* Scanner::token_for_keyword
token_for_keyword(lexeme) ==
    CASE lexeme = <<"c", "l", "e", "a", "r", "-", "f", "a", "c", "t">> ->
           Some(Keyword("ClearFact"))
      [] lexeme = <<"c", "l", "e", "a", "r", "-", "p", "e", "r", "s", "i", "s", "t", "e", "n", "t", "-", "f", "a", "c", "t">> ->
           Some(Keyword("ClearPersistentFact"))
      [] lexeme = <<"e", "n", "d">> ->
           Some(Keyword("End"))
      [] lexeme = <<"f", "a", "c", "t", "?">> ->
           Some(Keyword("FactTest"))
      [] lexeme = <<"i", "f">> ->
           Some(Keyword("If"))
      [] lexeme = <<"o", "n">> ->
           Some(Keyword("On"))
      [] lexeme = <<"p", "r", "o", "c", "e", "d", "u", "r", "e">> ->
           Some(Keyword("Procedure"))
      [] lexeme = <<"r", "e", "m", "i", "n", "d", "e", "r">> ->
           Some(Keyword("Reminder"))
      [] lexeme = <<"r", "o", "l", "l">> ->
           Some(Keyword("Roll"))
      [] lexeme = <<"s", "e", "t", "-", "f", "a", "c", "t">> ->
           Some(Keyword("SetFact"))
      [] lexeme = <<"s", "e", "t", "-", "p", "e", "r", "s", "i", "s", "t", "e", "n", "t", "-", "f", "a", "c", "t">> ->
           Some(Keyword("SetPersistentFact"))
      [] lexeme = <<"s", "w", "a", "p", "-", "f", "a", "c", "t">> ->
           Some(Keyword("SwapFact"))
      [] lexeme = <<"s", "w", "a", "p", "-", "p", "e", "r", "s", "i", "s", "t", "e", "n", "t", "-", "f", "a", "c", "t">> ->
           Some(Keyword("SwapPersistentFact"))
      [] lexeme = <<"t", "a", "b", "l", "e">> ->
           Some(Keyword("Table"))
      [] OTHER -> None

\* The match on (is_dice_roll, is_roll_range) that ends Scanner::scan_numeric.
scan_numeric_token(self, is_dice_roll, is_roll_range) ==
    LET lexeme == Lexeme(self) IN
    CASE is_dice_roll /\ ~is_roll_range -> Scanned(self, OkToken(RollSpecifier(lexeme)))
      [] ~is_dice_roll /\ is_roll_range ->
           LET range_nums == split(lexeme, "-")
               range_min == ParseI32(range_nums[1])
               range_max == ParseI32(range_nums[Len(range_nums)])
           IN  IF range_min = None
               THEN Scanned(self, Panic("range min should be a number"))
               ELSE IF range_max = None
               THEN Scanned(self, Panic("range max should be a number"))
               ELSE Scanned(self, OkToken(NumRange(range_min[1], range_max[1])))
      [] ~is_dice_roll /\ ~is_roll_range ->
           IF ParseI32(lexeme) = None
           THEN Scanned(self, Panic("should be a number"))
           ELSE Scanned(self, OkToken(Num(ParseI32(lexeme)[1])))
      [] is_dice_roll /\ is_roll_range ->
           Scanned(self, ScannerError(self, lexeme,
                                      "can't be a dice roll and dice range"))

\* Scanner::scan_numeric, from its while loop on.
RECURSIVE scan_numeric_loop(_, _, _)
scan_numeric_loop(self, is_dice_roll, is_roll_range) ==
    LET next_ch == curr_char(self) IN
    IF scanner_is_at_end(self)
    THEN scan_numeric_token(self, is_dice_roll, is_roll_range)
    ELSE CASE next_ch = "d" ->
                IF ~is_numeric(scanner_peek_next(self))
                THEN Scanned(self, ScannerError(self, Lexeme(self),
                                 "roll specifier must be NUMBER 'd' NUMBER"))
                ELSE scan_numeric_loop(scanner_advance(self), TRUE, is_roll_range)
           [] next_ch = "-" ->
                scan_numeric_loop(scanner_advance(self), is_dice_roll, TRUE)
           [] is_numeric(next_ch) ->
                scan_numeric_loop(scanner_advance(self), is_dice_roll, is_roll_range)
           [] OTHER -> scan_numeric_token(self, is_dice_roll, is_roll_range)

\* Scanner::scan_numeric
scan_numeric(self) == scan_numeric_loop(self, FALSE, FALSE)

\* Scanner::scan_str
RECURSIVE scan_str(_)
scan_str(self) ==
    IF scanner_peek(self) # "\"" /\ ~scanner_is_at_end(self)
    THEN LET advanced == scanner_advance(self) IN
         scan_str(IF curr_char(advanced) = "\n"
                  THEN [advanced EXCEPT !.line = @ + 1]
                  ELSE advanced)
    ELSE IF scanner_is_at_end(self)
    THEN Scanned(self, ScannerError(self, Lexeme(self),
                                    "unterminated string, expected closing '\"'"))
    ELSE LET closed == scanner_advance(self) IN
         Scanned(closed,
                 OkToken(StrToken(SubSeq(closed.source, closed.start + 2,
                                         closed.position - 1))))

\* Scanner::scan_symbol
RECURSIVE scan_symbol(_)
scan_symbol(self) ==
    LET next_ch == curr_char(self) IN
    IF ~scanner_is_at_end(self) /\ (is_alphabetic(next_ch) \/ next_ch = "-")
    THEN scan_symbol(scanner_advance(self))
    ELSE LET lexeme == Lexeme(self) IN
         IF token_for_keyword(lexeme) # None
         THEN Scanned(self, OkToken(token_for_keyword(lexeme)[1]))
         ELSE Scanned(self, OkToken(Identifier(lexeme)))

\* Scanner::match_and_consume
match_and_consume(self, ch) ==
    IF scanner_peek(self) = ch THEN Scanned(scanner_advance(self), TRUE)
    ELSE Scanned(self, FALSE)

\* next_token returning the error for an unexpected character without
\* having passed the character.
RECURSIVE next_token_keeping_unexpected(_)
next_token_keeping_unexpected(self) ==
    LET ch == curr_char(self)
        advanced == scanner_advance(self)
    IN  CASE is_numeric(ch) -> scan_numeric(advanced)
          [] ch = "\"" -> scan_str(advanced)
          [] is_alphabetic(ch) -> scan_symbol(advanced)
          [] ch = " " ->
               next_token_keeping_unexpected([advanced EXCEPT !.start = advanced.position])
          [] ch = "\t" -> Scanned(advanced, OkToken(Keyword("Indent")))
          [] ch = "\n" ->
               Scanned([advanced EXCEPT !.line = @ + 1], OkToken(Keyword("Newline")))
          [] ch = "=" ->
               LET matched == match_and_consume(advanced, ">") IN
               IF matched.result
               THEN Scanned(matched.self, OkToken(Keyword("Arrow")))
               ELSE Scanned(matched.self,
                            ScannerError(matched.self, Lexeme(matched.self),
                                         "expected '>' after '='"))
          [] ch = "+" -> Scanned(advanced, OkToken(Keyword("Plus")))
          [] ch = "-" -> Scanned(advanced, OkToken(Keyword("Minus")))
          [] OTHER -> Scanned(self, ScannerError(self, <<ch>>, "unexpected character"))

\* Scanner::next_token
RECURSIVE next_token(_)
next_token(self) ==
    LET ch == curr_char(self)
        advanced == scanner_advance(self)
    IN  CASE is_numeric(ch) -> scan_numeric(advanced)
          [] ch = "\"" -> scan_str(advanced)
          [] is_alphabetic(ch) -> scan_symbol(advanced)
          [] ch = " " -> next_token([advanced EXCEPT !.start = advanced.position])
          [] ch = "\t" -> Scanned(advanced, OkToken(Keyword("Indent")))
          [] ch = "\n" ->
               Scanned([advanced EXCEPT !.line = @ + 1], OkToken(Keyword("Newline")))
          [] ch = "=" ->
               LET matched == match_and_consume(advanced, ">") IN
               IF matched.result
               THEN Scanned(matched.self, OkToken(Keyword("Arrow")))
               ELSE Scanned(matched.self,
                            ScannerError(matched.self, Lexeme(matched.self),
                                         "expected '>' after '='"))
          [] ch = "+" -> Scanned(advanced, OkToken(Keyword("Plus")))
          [] ch = "-" -> Scanned(advanced, OkToken(Keyword("Minus")))
          [] OTHER ->
               Scanned(advanced, ScannerError(advanced, <<ch>>, "unexpected character"))

\* The while loop of Scanner::tokens, with the tokens pushed so far.  A
\* panic in next_token leaves tokens without a return value.
RECURSIVE tokens_loop(_, _)
tokens_loop(self, toks) ==
    IF scanner_is_at_end(self)
    THEN Scanned(self, [tag |-> "Ok", toks |-> Append(toks, OkToken(Eof))])
    ELSE LET next == next_token([self EXCEPT !.start = self.position]) IN
         IF next.result.tag = "Panic" THEN next
         ELSE tokens_loop(next.self, Append(toks, next.result))

\* tokens without its early return for a scanner at its end.
tokens_without_early_return(self) == tokens_loop(self, <<>>)

\* Scanner::tokens
tokens(self) ==
    IF scanner_is_at_end(self) THEN Scanned(self, [tag |-> "Ok", toks |-> <<>>])
    ELSE tokens_loop(self, <<>>)

\* ------------------------------------------------------------- parser

\* Every method of Parser is an operator that maps the parser (a record
\* `self`) to the set of its outcomes, as the methods of Interpreter are; a
\* parser has one outcome.

\* Ok(value), as a Parser method returns it.
OkParsed(value) == [tag |-> "Ok", value |-> value]

\* Result::expect(why) applied to what a Parser method returned.
Expect(outcomes, why) ==
    {IF o.result.tag = "Err" THEN Outcome(o.self, Panic(why)) ELSE o : o \in outcomes}

\* Parser::new
ParserNew(toks) == [tokens |-> toks, position |-> 0]

\* Parser::advance
parser_advance(self) == [self EXCEPT !.position = @ + 1]

\* Parser::peek
parser_peek(self) ==
    IF Len(self.tokens) > self.position THEN self.tokens[self.position + 1] ELSE Eof

\* Parser::peek_next
parser_peek_next(self) ==
    IF Len(self.tokens) > self.position + 1 THEN self.tokens[self.position + 2]
    ELSE Eof

\* Parser::is_at_end
parser_is_at_end(self) == parser_peek(self) = Eof

\* Err(CrawlError::ParserError { token: format!("{:?}", self.peek()) }); the
\* token stands for its Debug text.
UnexpectedToken(self) == {Outcome(self, ParserError(parser_peek(self)))}

\* Parser::consume
consume(self, token) ==
    IF parser_peek(self) = token THEN {Outcome(parser_advance(self), OkParsed(token))}
    ELSE UnexpectedToken(self)

\* while *self.peek() == token { self.advance() }
RECURSIVE SkipWhile(_, _)
SkipWhile(self, token) ==
    IF parser_peek(self) = token THEN SkipWhile(parser_advance(self), token) ELSE self

\* Parser::procedure_call
parser_procedure_call(self) ==
    IF parser_peek(self).type = "Identifier"
    THEN {Outcome(parser_advance(self), OkParsed(ProcedureCall(parser_peek(self).name)))}
    ELSE UnexpectedToken(self)

\* Parser::modified_specifier, had it taken the two tokens after the base for
\* a modifier whatever they are.
\* Parser::modified_specifier with the number after Minus taken as it is.
parser_modified_specifier_unsigned(self) ==
    IF parser_peek(self).type # "RollSpecifier" THEN UnexpectedToken(self)
    ELSE LET base_roll_specifier == parser_peek(self)
             signed == parser_advance(self)
             sign == parser_peek(signed)
             number == parser_peek(parser_advance(signed))
             n == IF number.type = "Num" THEN number.n ELSE 0
         IN  IF sign.type \in {"Plus", "Minus"}
             THEN {Outcome(parser_advance(parser_advance(signed)),
                           OkParsed([base_roll_specifier |-> base_roll_specifier,
                                     modifier |-> n]))}
             ELSE {Outcome(signed,
                           OkParsed([base_roll_specifier |-> base_roll_specifier,
                                     modifier |-> 0]))}

parser_modified_specifier_always_signed(self) ==
    IF parser_peek(self).type # "RollSpecifier" THEN UnexpectedToken(self)
    ELSE LET number == parser_peek(parser_advance(parser_advance(self))) IN
         {Outcome(parser_advance(parser_advance(parser_advance(self))),
                  OkParsed([base_roll_specifier |-> parser_peek(self),
                            modifier |-> IF number.type = "Num" THEN number.n ELSE 0]))}

\* Parser::modified_specifier
parser_modified_specifier(self) ==
    IF parser_peek(self).type # "RollSpecifier" THEN UnexpectedToken(self)
    ELSE LET base_roll_specifier == parser_peek(self)
             signed == parser_advance(self)
             sign == parser_peek(signed)
             number == parser_peek(parser_advance(signed))
             n == IF number.type = "Num" THEN number.n ELSE 0
         IN  IF sign.type = "Plus"
             THEN {Outcome(parser_advance(parser_advance(signed)),
                           OkParsed([base_roll_specifier |-> base_roll_specifier,
                                     modifier |-> n]))}
             ELSE IF sign.type = "Minus"
             THEN {Outcome(parser_advance(parser_advance(signed)),
                           OkParsed([base_roll_specifier |-> base_roll_specifier,
                                     modifier |-> -n]))}
             ELSE {Outcome(signed,
                           OkParsed([base_roll_specifier |-> base_roll_specifier,
                                     modifier |-> 0]))}

\* Parser::reminder
parser_reminder(self) ==
    {IF ~Returned(c) THEN c
     ELSE IF parser_peek(c.self).type # "Str"
     THEN Outcome(c.self, ParserError(parser_peek(c.self)))
     ELSE Outcome(parser_advance(c.self), OkParsed(Reminder(parser_peek(c.self).string))) :
     c \in Expect(consume(self, Keyword("Reminder")), "expected reminder")}

\* Parser::load_table
parser_load_table(self) ==
    UNION {IF ~Returned(load) THEN {load}
           ELSE {IF ~Returned(table) THEN table
                 ELSE IF parser_peek(table.self).type # "Str"
                 THEN Outcome(parser_advance(table.self),
                              ParserError(parser_peek(table.self)))
                 ELSE Outcome(parser_advance(table.self),
                              OkParsed(LoadTable(parser_peek(table.self).string))) :
                 table \in Expect(consume(load.self, Keyword("Table")),
                                  "expected table")} :
           load \in Expect(consume(self, Keyword("Load")), "expected load")}

\* Parser::fact_check
parser_fact_check(self) ==
    {IF ~Returned(c) THEN c
     ELSE IF parser_peek(c.self).type # "Str"
     THEN Outcome(parser_advance(c.self), ParserError(parser_peek(c.self)))
     ELSE Outcome(parser_advance(c.self), OkParsed(CheckFact(parser_peek(c.self).string))) :
     c \in Expect(consume(self, Keyword("FactTest")), "expected fact?")}

\* Parser::persistent_fact_check
parser_persistent_fact_check(self) ==
    {IF ~Returned(c) THEN c
     ELSE IF parser_peek(c.self).type # "Str"
     THEN Outcome(parser_advance(c.self), ParserError(parser_peek(c.self)))
     ELSE Outcome(parser_advance(c.self),
                  OkParsed(CheckPersistentFact(parser_peek(c.self).string))) :
     c \in Expect(consume(self, Keyword("PersistentFactTest")),
                  "expected persistent-fact?")}

\* Parser::set_persistent_fact
parser_set_persistent_fact(self) ==
    {IF ~Returned(c) THEN c
     ELSE IF parser_peek(c.self).type # "Str"
     THEN Outcome(c.self, ParserError(parser_peek(c.self)))
     ELSE Outcome(parser_advance(c.self),
                  OkParsed(SetPersistentFact(parser_peek(c.self).string))) :
     c \in Expect(consume(self, Keyword("SetPersistentFact")),
                  "expected set-persistent-fact")}

\* Parser::clear_fact
parser_clear_fact(self) ==
    {IF ~Returned(c) THEN c
     ELSE IF parser_peek(c.self).type # "Str"
     THEN Outcome(c.self, ParserError(parser_peek(c.self)))
     ELSE Outcome(parser_advance(c.self), OkParsed(ClearFact(parser_peek(c.self).string))) :
     c \in Expect(consume(self, Keyword("ClearFact")), "expected clear-fact")}

\* Parser::clear_persistent_fact
parser_clear_persistent_fact(self) ==
    {IF ~Returned(c) THEN c
     ELSE IF parser_peek(c.self).type # "Str"
     THEN Outcome(c.self, ParserError(parser_peek(c.self)))
     ELSE Outcome(parser_advance(c.self),
                  OkParsed(ClearPersistentFact(parser_peek(c.self).string))) :
     c \in Expect(consume(self, Keyword("ClearPersistentFact")),
                  "expected clear-persistent-fact")}

\* Parser::table_roll
parser_table_roll(self) ==
    UNION {IF ~Returned(roll) THEN {roll}
           ELSE UNION {IF ~Returned(on) THEN {on}
                       ELSE {IF ~Returned(table) THEN table
                             ELSE IF parser_peek(table.self).type # "Str"
                             THEN Outcome(table.self, ParserError(parser_peek(table.self)))
                             ELSE Outcome(parser_advance(table.self),
                                          OkParsed(TableRollStatement(
                                              parser_peek(table.self).string))) :
                             table \in Expect(consume(on.self, Keyword("Table")),
                                              "expected table")} :
                       on \in Expect(consume(roll.self, Keyword("On")), "expected on")} :
           roll \in Expect(consume(self, Keyword("Roll")), "expected roll")}

\* Parser::nontargeted_roll
parser_nontargeted_roll(self) ==
    UNION {IF ~Returned(roll) THEN {roll}
           ELSE {IF ~Returned(spec) THEN spec
                 ELSE Outcome(spec.self, OkParsed(NontargetedRoll(spec.result.value))) :
                 spec \in parser_modified_specifier(roll.self)} :
           roll \in Expect(consume(self, Keyword("Roll")), "expected roll")}

\* Parser::str
parser_str(self) ==
    IF parser_peek(self).type # "Str" THEN UnexpectedToken(self)
    ELSE IF parser_peek(parser_advance(self)).type # "Percent"
    THEN {Outcome(parser_advance(self), OkParsed(Str(parser_peek(self).string)))}
    ELSE {IF ~Returned(expr) THEN expr
          ELSE Outcome(expr.self,
                       OkParsed(InterpolatedStr(parser_peek(self).string,
                                                <<expr.result.value>>))) :
          expr \in IF parser_peek_next(parser_advance(parser_advance(self))).type = "On"
                   THEN parser_table_roll(parser_advance(parser_advance(self)))
                   ELSE IF parser_peek_next(parser_advance(parser_advance(self))).type
                               = "RollSpecifier"
                   THEN parser_nontargeted_roll(parser_advance(parser_advance(self)))
                   ELSE UnexpectedToken(parser_advance(parser_advance(self)))}

\* Parser::set_fact
parser_set_fact(self) ==
    UNION {IF ~Returned(c) THEN {c}
           ELSE {IF ~Returned(fact) THEN fact
                 ELSE Outcome(fact.self, OkParsed(SetFact(fact.result.value))) :
                 fact \in parser_str(c.self)} :
           c \in Expect(consume(self, Keyword("SetFact")), "expected set-fact")}

\* Parser::dice_roll
parser_dice_roll(self) ==
    UNION {IF ~Returned(roll) THEN {roll}
           ELSE IF parser_peek(roll.self).type \notin {"Num", "NumRange"}
           THEN UnexpectedToken(roll.self)
           ELSE UNION {IF ~Returned(on) THEN {on}
                       ELSE {IF ~Returned(roll_specifier) THEN roll_specifier
                             ELSE Outcome(roll_specifier.self,
                                          OkParsed(DiceRoll(parser_peek(roll.self),
                                                            roll_specifier.result.value))) :
                             roll_specifier \in parser_modified_specifier(on.self)} :
                       on \in Expect(consume(parser_advance(roll.self), Keyword("On")),
                                     "expected on")} :
           roll \in Expect(consume(self, Keyword("Roll")), "expected roll")}

\* Parser::antecedent
parser_antecedent(self) ==
    CASE parser_peek(self).type = "Roll" -> parser_dice_roll(self)
      [] parser_peek(self).type = "FactTest" -> parser_fact_check(self)
      [] parser_peek(self).type = "PersistentFactTest" -> parser_persistent_fact_check(self)
      [] OTHER -> UnexpectedToken(self)

\* Parser::consequent
parser_consequent(self) ==
    CASE parser_peek(self).type = "ClearFact" -> parser_clear_fact(self)
      [] parser_peek(self).type = "ClearPersistentFact" -> parser_clear_persistent_fact(self)
      [] parser_peek(self).type = "Identifier" -> parser_procedure_call(self)
      [] parser_peek(self).type = "Reminder" -> parser_reminder(self)
      [] parser_peek(self).type = "Roll" -> parser_table_roll(self)
      [] parser_peek(self).type = "SetFact" -> parser_set_fact(self)
      [] parser_peek(self).type = "SetPersistentFact" -> parser_set_persistent_fact(self)
      [] OTHER -> UnexpectedToken(self)

\* Parser::if_then
parser_if_then(self) ==
    UNION {IF ~Returned(if) THEN {if}
           ELSE UNION {IF ~Returned(antecedent) THEN {antecedent}
                       ELSE UNION {IF ~Returned(arrow) THEN {arrow}
                                   ELSE {IF ~Returned(consequent) THEN consequent
                                         ELSE Outcome(consequent.self,
                                                      OkParsed(IfThen(
                                                          antecedent.result.value,
                                                          consequent.result.value))) :
                                         consequent \in parser_consequent(arrow.self)} :
                                   arrow \in Expect(consume(antecedent.self,
                                                            Keyword("Arrow")),
                                                    "expected arrow")} :
                       antecedent \in parser_antecedent(if.self)} :
           if \in Expect(consume(self, Keyword("If")), "expected if")}

\* Parser::matching_roll: one arm, from its target on.
parser_matching_roll_arm(self) ==
    IF parser_peek(self).type \notin {"Num", "NumRange"} THEN UnexpectedToken(self)
    ELSE UNION {IF ~Returned(arrow) THEN {arrow}
                ELSE UNION {IF ~Returned(consequent) THEN {consequent}
                            ELSE {IF ~Returned(newline) THEN newline
                                  ELSE Outcome(newline.self,
                                               OkParsed(MatchingRollArm(
                                                   parser_peek(self),
                                                   consequent.result.value))) :
                                  newline \in Expect(consume(consequent.self,
                                                             Keyword("Newline")),
                                                     "expected newline")} :
                            consequent \in parser_consequent(arrow.self)} :
                arrow \in Expect(consume(parser_advance(self), Keyword("Arrow")),
                                 "expected arrow")}

\* Parser::matching_roll: the loop that collects the arms.
RECURSIVE parser_matching_roll_arms(_, _)
parser_matching_roll_arms(self, arms) ==
    IF parser_peek(self) = Keyword("End") THEN {Outcome(self, OkParsed(arms))}
    ELSE UNION {IF ~Returned(indent) THEN {indent}
                ELSE IF parser_peek(SkipWhile(indent.self, Keyword("Indent")))
                            = Keyword("End")
                THEN {Outcome(SkipWhile(indent.self, Keyword("Indent")), OkParsed(arms))}
                ELSE UNION {IF ~Returned(arm) THEN {arm}
                            ELSE parser_matching_roll_arms(
                                     arm.self, Append(arms, arm.result.value)) :
                            arm \in parser_matching_roll_arm(
                                        SkipWhile(indent.self, Keyword("Indent")))} :
                indent \in Expect(consume(self, Keyword("Indent")), "expected indent")}

\* Parser::matching_roll
parser_matching_roll(self) ==
    UNION {IF ~Returned(roll) THEN {roll}
           ELSE UNION {IF ~Returned(roll_specifier) THEN {roll_specifier}
                       ELSE UNION {IF ~Returned(newline) THEN {newline}
                                   ELSE UNION {IF ~Returned(arms) THEN {arms}
                                               ELSE {IF ~Returned(end) THEN end
                                                     ELSE Outcome(
                                                         end.self,
                                                         OkParsed(MatchingRoll(
                                                             roll_specifier.result.value,
                                                             arms.result.value))) :
                                                     end \in Expect(
                                                         consume(arms.self, Keyword("End")),
                                                         "expected end")} :
                                               arms \in parser_matching_roll_arms(
                                                            newline.self, <<>>)} :
                                   newline \in Expect(consume(roll_specifier.self,
                                                              Keyword("Newline")),
                                                      "expected newline")} :
                       roll_specifier \in parser_modified_specifier(roll.self)} :
           roll \in Expect(consume(self, Keyword("Roll")), "expected roll")}

RECURSIVE parser_statement(_)

\* Parser::procedure: the loop that collects the body.
RECURSIVE parser_procedure_body(_, _)
parser_procedure_body(self, body) ==
    IF parser_peek(self) = Keyword("End") THEN {Outcome(self, OkParsed(body))}
    ELSE UNION {IF ~Returned(indent) THEN {indent}
                ELSE UNION {IF ~Returned(parsed) THEN {parsed}
                            ELSE parser_procedure_body(
                                     parsed.self, Append(body, parsed.result.value)) :
                            parsed \in parser_statement(indent.self)} :
                indent \in Expect(consume(self, Keyword("Indent")), "expected indent")}

\* Parser::procedure
parser_procedure(self) ==
    UNION {IF ~Returned(procedure) THEN {procedure}
           ELSE IF parser_peek(procedure.self).type # "Identifier"
           THEN UnexpectedToken(procedure.self)
           ELSE UNION {IF ~Returned(newline) THEN {newline}
                       ELSE UNION {IF ~Returned(body) THEN {body}
                                   ELSE {IF ~Returned(end) THEN end
                                         ELSE Outcome(
                                             end.self,
                                             OkParsed(Procedure(
                                                 parser_peek(procedure.self).name,
                                                 body.result.value))) :
                                         end \in Expect(consume(body.self, Keyword("End")),
                                                        "expected end")} :
                                   body \in parser_procedure_body(newline.self, <<>>)} :
                       newline \in Expect(consume(parser_advance(procedure.self),
                                                  Keyword("Newline")),
                                          "expected newline")} :
           procedure \in Expect(consume(self, Keyword("Procedure")),
                                "expected procedure")}

\* Parser::statement with a Roll dispatched as in a consequent whenever no
\* roll specifier follows it.
parser_statement_result_rolling_on_any(self) ==
    CASE parser_peek(self).type = "ClearFact" -> parser_clear_fact(self)
      [] parser_peek(self).type = "ClearPersistentFact" -> parser_clear_persistent_fact(self)
      [] parser_peek(self).type = "Identifier" -> parser_procedure_call(self)
      [] parser_peek(self).type = "If" -> parser_if_then(self)
      [] parser_peek(self).type = "Load" -> parser_load_table(self)
      [] parser_peek(self).type = "Procedure" -> parser_procedure(self)
      [] parser_peek(self).type = "Reminder" -> parser_reminder(self)
      [] parser_peek(self).type = "Roll"
             /\ parser_peek_next(self).type = "RollSpecifier" ->
           parser_matching_roll(self)
      [] parser_peek(self).type = "Roll" -> parser_table_roll(self)
      [] parser_peek(self).type = "SetFact" -> parser_set_fact(self)
      [] parser_peek(self).type = "SetPersistentFact" -> parser_set_persistent_fact(self)
      [] OTHER -> UnexpectedToken(self)

\* Parser::statement: the match on self.peek().
parser_statement_result(self) ==
    CASE parser_peek(self).type = "ClearFact" -> parser_clear_fact(self)
      [] parser_peek(self).type = "ClearPersistentFact" -> parser_clear_persistent_fact(self)
      [] parser_peek(self).type = "Identifier" -> parser_procedure_call(self)
      [] parser_peek(self).type = "If" -> parser_if_then(self)
      [] parser_peek(self).type = "Load" -> parser_load_table(self)
      [] parser_peek(self).type = "Procedure" -> parser_procedure(self)
      [] parser_peek(self).type = "Reminder" -> parser_reminder(self)
      [] parser_peek(self).type = "Roll" /\ parser_peek_next(self).type = "On" ->
           parser_table_roll(self)
      [] parser_peek(self).type = "Roll"
             /\ parser_peek_next(self).type = "RollSpecifier" ->
           parser_matching_roll(self)
      [] parser_peek(self).type = "SetFact" -> parser_set_fact(self)
      [] parser_peek(self).type = "SetPersistentFact" -> parser_set_persistent_fact(self)
      [] OTHER -> UnexpectedToken(self)

\* Parser::statement without its consume(Token::Newline)?: the newlines
\* that follow are skipped, and none is required.
parser_statement_without_newline(self) ==
    {IF Aborts(result.result) THEN result
     ELSE Outcome(SkipWhile(IF Returned(result) THEN result.self
                            ELSE parser_advance(result.self), Keyword("Newline")),
                  result.result) :
     result \in parser_statement_result(self)}

\* Parser::statement
parser_statement(self) ==
    UNION {IF Aborts(result.result) THEN {result}
           ELSE {IF ~Returned(newline) THEN newline
                 ELSE Outcome(SkipWhile(newline.self, Keyword("Newline")), result.result) :
                 newline \in consume(IF Returned(result) THEN result.self
                                     ELSE parser_advance(result.self),
                                     Keyword("Newline"))} :
           result \in parser_statement_result(self)}

\* Parser::parse: the loop, with the statements pushed so far.
RECURSIVE parse_loop(_, _)
parse_loop(self, parsed) ==
    IF parser_is_at_end(self) THEN {Outcome(self, OkParsed(parsed))}
    ELSE UNION {IF Aborts(result.result) THEN {result}
                ELSE IF ~Returned(result)
                THEN {Outcome(result.self,
                              Panic("called Result::unwrap() on an Err value"))}
                ELSE parse_loop(result.self, Append(parsed, result.result)) :
                result \in parser_statement(self)}

\* Parser::parse
parse(self) == parse_loop(self, <<>>)

\* -------------------------------------------------- Interpreter::interpret

VARIABLES
    procedures,        \* Interpreter.procedures: identifier -> CrawlProcedure
    tables,            \* Interpreter.tables: table name -> Table
    persistent_facts,  \* Interpreter.persistent_facts
    local_facts,       \* Interpreter.local_facts
    remaining,         \* how many statements of the list are still to come
    statements,        \* the statements of the list the loop has taken
    records,           \* interpret's records
    status,            \* "interpreting", "returned", "panicked", "stack overflow"
    before,            \* the interpreter before the latest statement
    log,               \* what the evaluation of the latest statement did
    database,          \* FactDatabase.facts of a database used on its own
    database_calls,    \* the calls made on that database, with their results
    scanner,           \* a Scanner: source, position, line, start
    tokens_calls,      \* what each call of Scanner::tokens returned
    parser,            \* a Parser: tokens, position
    parse_calls,       \* what each call of Parser::parse returned
    table,             \* what Table::from returned: a Table, or a panic
    table_roll,        \* the latest Table::roll: its dice, their total, its result
    roll_specifier,    \* a ModifiedRollSpecifier
    dice_roll,         \* what DiceRoll::try_from(&roll_specifier) returned
    dice_roll_result,  \* what the latest dice_roll.roll() returned
    production_call    \* the call of one production of the parser, with its result

interpreter_vars == <<procedures, tables, persistent_facts, local_facts, remaining,
                      statements, records, status, before, log>>

database_vars == <<database, database_calls>>

scanner_vars == <<scanner, tokens_calls>>

parser_vars == <<parser, parse_calls>>

table_vars == <<table, table_roll>>

dice_vars == <<roll_specifier, dice_roll, dice_roll_result>>

production_vars == <<production_call>>

vars == <<interpreter_vars, database_vars, scanner_vars, parser_vars, table_vars,
          dice_vars, production_vars>>

\* The parts of the state a program under study does not use.
NoInterpreter ==
    /\ procedures = <<>>
    /\ tables = <<>>
    /\ persistent_facts = {}
    /\ local_facts = {}
    /\ remaining = 0
    /\ statements = <<>>
    /\ records = <<>>
    /\ status = "unused"
    /\ before = [procedures |-> <<>>, tables |-> <<>>,
                 persistent_facts |-> {}, local_facts |-> {}]
    /\ log = <<>>

NoDatabase == database = {} /\ database_calls = <<>>

NoScanner == scanner = ScannerNew(<<>>) /\ tokens_calls = <<>>

NoParser == parser = ParserNew(<<>>) /\ parse_calls = <<>>

NoTable == table = Panic("no table") /\ table_roll = None

NoDice ==
    /\ roll_specifier = [base_roll_specifier |-> Eof, modifier |-> 0]
    /\ dice_roll = None
    /\ dice_roll_result = None

NoProduction == production_call = None

\* The interpreter as evaluate_statement receives it from interpret.
Interpreter ==
    [procedures |-> procedures, tables |-> tables,
     persistent_facts |-> persistent_facts, local_facts |-> local_facts,
     depth |-> 0, log |-> <<>>]

\* Interpreter::new, and interpret called with a list of up to MaxStatements
\* statements; each statement of the list is chosen when the loop takes it.
Init ==
    /\ procedures = <<>>
    /\ tables = <<>>
    /\ persistent_facts = {}
    /\ local_facts = {}
    /\ remaining \in 0..MaxStatements
    /\ statements = <<>>
    /\ records = <<>>
    /\ status = "interpreting"
    /\ before = [procedures |-> <<>>, tables |-> <<>>,
                 persistent_facts |-> {}, local_facts |-> {}]
    /\ log = <<>>
    /\ NoDatabase
    /\ NoScanner
    /\ NoParser
    /\ NoTable
    /\ NoDice
    /\ NoProduction

\* One round of interpret's loop: records.push(self.evaluate_statement(..)).
\* A panic or a stack overflow inside evaluate_statement ends interpret
\* without a return value.
InterpretStatement(statement) ==
    /\ status = "interpreting"
    /\ remaining > 0
    /\ \E o \in evaluate_statement(Interpreter, statement) :
        /\ procedures' = o.self.procedures
        /\ tables' = o.self.tables
        /\ persistent_facts' = o.self.persistent_facts
        /\ local_facts' = o.self.local_facts
        /\ log' = o.self.log
        /\ IF Aborts(o.result)
           THEN /\ status' = IF o.result.tag = "Panic" THEN "panicked"
                             ELSE "stack overflow"
                /\ records' = records
           ELSE /\ status' = status
                /\ records' = Append(records, o.result)
    /\ remaining' = remaining - 1
    /\ statements' = Append(statements, statement)
    /\ before' = [procedures |-> procedures, tables |-> tables,
                  persistent_facts |-> persistent_facts, local_facts |-> local_facts]
    /\ UNCHANGED <<database_vars, scanner_vars, parser_vars, table_vars, dice_vars, production_vars>>

OfType(type) == {statement \in Statements : statement.type = type}

InterpretClearFact == \E statement \in OfType("ClearFact") : InterpretStatement(statement)

InterpretClearPersistentFact ==
    \E statement \in OfType("ClearPersistentFact") : InterpretStatement(statement)

InterpretIfThen == \E statement \in OfType("IfThen") : InterpretStatement(statement)

InterpretLoadTable == \E statement \in OfType("LoadTable") : InterpretStatement(statement)

InterpretMatchingRoll ==
    \E statement \in OfType("MatchingRoll") : InterpretStatement(statement)

InterpretProcedure == \E statement \in OfType("Procedure") : InterpretStatement(statement)

InterpretProcedureCall ==
    \E statement \in OfType("ProcedureCall") : InterpretStatement(statement)

InterpretReminder == \E statement \in OfType("Reminder") : InterpretStatement(statement)

InterpretSetFact == \E statement \in OfType("SetFact") : InterpretStatement(statement)

InterpretSetPersistentFact ==
    \E statement \in OfType("SetPersistentFact") : InterpretStatement(statement)

InterpretTableRoll == \E statement \in OfType("TableRoll") : InterpretStatement(statement)

InterpretNontargetedRoll ==
    \E statement \in OfType("NontargetedRoll") : InterpretStatement(statement)

\* interpret returns its records once the list is exhausted.
InterpretReturn ==
    /\ status = "interpreting"
    /\ remaining = 0
    /\ status' = "returned"
    /\ UNCHANGED <<procedures, tables, persistent_facts, local_facts, remaining,
                   statements, records, before, log>>
    /\ UNCHANGED <<database_vars, scanner_vars, parser_vars, table_vars, dice_vars, production_vars>>

Next ==
    \/ InterpretClearFact
    \/ InterpretClearPersistentFact
    \/ InterpretIfThen
    \/ InterpretLoadTable
    \/ InterpretMatchingRoll
    \/ InterpretProcedure
    \/ InterpretProcedureCall
    \/ InterpretReminder
    \/ InterpretSetFact
    \/ InterpretSetPersistentFact
    \/ InterpretTableRoll
    \/ InterpretNontargetedRoll
    \/ InterpretReturn

Spec == Init /\ [][Next]_vars

\* ------------------------------------------------------- FactDatabase

MaxCalls == 3

\* The facts a database is asked about.
Facts == {FactTryFrom(s).fact : s \in {XIsY, ZIsW, <<"x", " ", "i", " ", "w">>,
                                        <<"z", " ", "i", " ", "y">>}}

\* FactDatabase::new, with any set of facts.
InitDatabase ==
    /\ database \in SUBSET Facts
    /\ database_calls = <<>>
    /\ NoInterpreter
    /\ NoScanner
    /\ NoParser
    /\ NoTable
    /\ NoDice
    /\ NoProduction

DatabaseCalled(method, fact, result) ==
    /\ Len(database_calls) < MaxCalls
    /\ database_calls' = Append(database_calls,
                                [method |-> method, fact |-> fact, result |-> result,
                                 facts |-> database])
    /\ UNCHANGED <<interpreter_vars, scanner_vars, parser_vars, table_vars, dice_vars, production_vars>>

\* database.set(fact)
DatabaseSet ==
    \E fact \in Facts :
        /\ database' = FactSet(database, fact)
        /\ DatabaseCalled("set", fact, "()")

\* database.clear(&fact)
DatabaseClear ==
    \E fact \in Facts :
        /\ database' = FactClear(database, fact)
        /\ DatabaseCalled("clear", fact, "()")

\* database.check(&fact)
DatabaseCheck ==
    \E fact \in Facts :
        /\ database' = database
        /\ DatabaseCalled("check", fact, FactCheck(database, fact))

NextDatabase == DatabaseSet \/ DatabaseClear \/ DatabaseCheck

SpecDatabase == InitDatabase /\ [][NextDatabase]_vars

\* ------------------------------------------------------------ Scanner

MaxSourceLen == 3

MaxNumericLen == 5

\* The characters of the short sources, and those of the numeric ones.
SourceChars == {"1", "6", "d", "-", " ", "\"", "=", ">", "\n", "\t", "+", "a", "?"}

NumericChars == {"1", "d", "-"}

\* The sequences over chars of length up to n.
RECURSIVE Strings(_, _)
Strings(chars, n) ==
    IF n = 0 THEN {<<>>}
    ELSE LET shorter == Strings(chars, n - 1) IN
         shorter \cup {Append(s, c) : s \in shorter, c \in chars}

\* Source texts of the scanner's tests and of the language's documentation.
IfHi5 ==
    <<"i", "f", " ", "\"", "H", "i", "\"", " ", "=", ">", " ", "5">>

ProcedureProc ==
    <<"p", "r", "o", "c", "e", "d", "u", "r", "e", " ", "p", "r", "o", "c">>

Roll2To10 ==
    <<"r", "o", "l", "l", " ", "2", "-", "1", "0">>

Roll99On3d100 ==
    <<"r", "o", "l", "l", " ", "9", "9", " ", "o", "n", " ", "3", "d", "1",
      "0", "0">>

TwoDs ==
    <<"1", "d", "6", "d", "8">>

MissingBound ==
    <<"5", "-">>

IncompleteArrow ==
    <<"=", " ", "5">>

UnterminatedString ==
    <<"\"", "U", "n", "t", "e", "r", "m", "i", "n", "a", "t", "e", "d",
      " ", "s", "t", "r", "i", "n", "g">>

IfRollReminder ==
    <<"i", "f", " ", "r", "o", "l", "l", " ", "1", "-", "3", " ", "o", "n",
      " ", "1", "d", "6", " ", "=", ">", " ", "r", "e", "m", "i", "n", "d",
      "e", "r", " ", "\"", "h", "i", "\"">>

IfRollReminderLine ==
    <<"i", "f", " ", "r", "o", "l", "l", " ", "1", "-", "3", " ", "o", "n",
      " ", "1", "d", "6", " ", "=", ">", " ", "r", "e", "m", "i", "n", "d",
      "e", "r", " ", "\"", "h", "i", "\"", "\n">>

ProcDef ==
    <<"p", "r", "o", "c", "e", "d", "u", "r", "e", " ", "p", "r", "o", "c",
      "\n", "\t", "r", "o", "l", "l", " ", "o", "n", " ", "t", "a", "b",
      "l", "e", " ", "\"", "t", "a", "b", "l", "e", "\"", "\n", "e", "n",
      "d">>

ScanExpr ==
    <<"r", "o", "l", "l", " ", "1", "-", "3", " ", "o", "n", " ", "1", "d",
      "6", " ", "+", " ", "1", " ", "=", ">", " ", "s", "e", "t", "-", "f",
      "a", "c", "t", " ", "\"", "p", "a", "r", "t", "y", " ", "i", "s",
      " ", "l", "o", "s", "t", "\"">>

Texts ==
    {IfHi5, ProcedureProc, Roll2To10, Roll99On3d100, TwoDs, MissingBound,
     IncompleteArrow, UnterminatedString, IfRollReminder, IfRollReminderLine, ProcDef, ScanExpr}

\* The lexemes of the keyword table of token_for_keyword.
KeywordLexemes ==
    {<<"c", "l", "e", "a", "r", "-", "f", "a", "c", "t">>,
     <<"c", "l", "e", "a", "r", "-", "p", "e", "r", "s", "i", "s", "t",
       "e", "n", "t", "-", "f", "a", "c", "t">>,
     <<"e", "n", "d">>,
     <<"f", "a", "c", "t", "?">>,
     <<"i", "f">>,
     <<"o", "n">>,
     <<"p", "r", "o", "c", "e", "d", "u", "r", "e">>,
     <<"r", "e", "m", "i", "n", "d", "e", "r">>,
     <<"r", "o", "l", "l">>,
     <<"s", "e", "t", "-", "f", "a", "c", "t">>,
     <<"s", "e", "t", "-", "p", "e", "r", "s", "i", "s", "t", "e", "n",
       "t", "-", "f", "a", "c", "t">>,
     <<"s", "w", "a", "p", "-", "f", "a", "c", "t">>,
     <<"s", "w", "a", "p", "-", "p", "e", "r", "s", "i", "s", "t", "e",
       "n", "t", "-", "f", "a", "c", "t">>,
     <<"t", "a", "b", "l", "e">>}

\* Each keyword followed by a space or a newline.
KeywordSources == {k \o <<t>> : k \in KeywordLexemes, t \in {" ", "\n"}}

Sources == Strings(SourceChars, MaxSourceLen) \cup Strings(NumericChars, MaxNumericLen)
               \cup Texts \cup KeywordSources

\* Scanner::new(source)
InitScanner ==
    /\ \E source \in Sources : scanner = ScannerNew(source)
    /\ tokens_calls = <<>>
    /\ NoInterpreter
    /\ NoDatabase
    /\ NoParser
    /\ NoTable
    /\ NoDice
    /\ NoProduction

\* scanner.tokens().  A call that panics is the last.
ScannerTokens ==
    /\ Len(tokens_calls) < MaxCalls
    /\ tokens_calls # <<>> => tokens_calls[Len(tokens_calls)].tag = "Ok"
    /\ scanner' = tokens(scanner).self
    /\ tokens_calls' = Append(tokens_calls, tokens(scanner).result)
    /\ UNCHANGED <<interpreter_vars, database_vars, parser_vars, table_vars, dice_vars, production_vars>>

NextScanner == ScannerTokens

SpecScanner == InitScanner /\ [][NextScanner]_vars

\* ------------------------------------------------------------- Parser

MaxTokens == 4

\* The tokens of the short token lists.
ListTokens ==
    {Keyword("Reminder"), StrToken(<<"h", "i">>), Keyword("Newline"),
     Identifier(<<"p">>), Keyword("Arrow"), Keyword("If"), Eof}

\* One token of every kind the parser matches on.
TokenKinds ==
    {Keyword(type) : type \in {"Arrow", "ClearFact", "ClearPersistentFact", "End",
                               "Eof", "FactTest", "If", "Indent", "Load", "Minus",
                               "Newline", "On", "Percent", "PersistentFactTest",
                               "Plus", "Procedure", "Reminder", "Roll", "SetFact",
                               "SetPersistentFact", "SwapFact", "SwapPersistentFact",
                               "Table"}}
    \cup {Identifier(<<"p">>), StrToken(<<"h", "i">>), Num(1), NumRange(1, 2),
          RollSpecifier(<<"1", "d", "6">>)}

\* What may follow the first token of a consequent.
ConsequentTails ==
    {<<>>, <<StrToken(<<"h", "i">>)>>,
     <<Keyword("On"), Keyword("Table"), StrToken(<<"h", "i">>)>>,
     <<RollSpecifier(<<"1", "d", "6">>)>>,
     <<Num(1), Keyword("On"), RollSpecifier(<<"1", "d", "6">>)>>,
     <<StrToken(<<"h", "i">>), Keyword("Arrow"), Keyword("Reminder"),
       StrToken(<<"h", "i">>)>>}

\* What follows the token after a Roll: nothing, the rest of a table roll and
\* its line, and the rest of a matching roll of two arms.
RollTails ==
    {<<>>,
     <<Keyword("Table"), StrToken(<<"h", "i">>), Keyword("Newline"), Eof>>,
     <<Keyword("Newline"), Keyword("Indent"), Num(1), Keyword("Arrow"),
       Keyword("Reminder"), StrToken(<<"h", "i">>), Keyword("Newline"),
       Keyword("Indent"), NumRange(1, 2), Keyword("Arrow"), Keyword("Roll"),
       Keyword("On"), Keyword("Table"), StrToken(<<"h", "i">>), Keyword("Newline"),
       Keyword("End"), Keyword("Newline"), Eof>>}

\* A Roll token followed by a token of every kind.
RollTokens ==
    {<<Keyword("Roll"), token>> \o tail : token \in TokenKinds, tail \in RollTails}

\* The tokens that follow a roll specifier.
ModifierTokens == {Keyword("Plus"), Keyword("Minus"), Num(1), Num(2), Keyword("Newline")}

\* A roll specifier and the tokens after it.
SpecifierTokens ==
    {<<RollSpecifier(<<"1", "d", "6">>)>> \o tail :
     tail \in Strings(ModifierTokens, MaxTokens - 1)}

\* Crawl::execute: the tokens of a source, each unwrapped.
ExecuteTokens(source) ==
    LET scanned == tokens(ScannerNew(source)).result IN
    IF scanned.tag # "Ok" THEN scanned
    ELSE IF \E i \in 1..Len(scanned.toks) : scanned.toks[i].tag # "Ok"
    THEN Panic("called Result::unwrap() on an Err value")
    ELSE OkParsed([i \in 1..Len(scanned.toks) |-> scanned.toks[i].token])

\* The sources whose tokens are parsed.
ParsedTexts == {IfRollReminder, IfRollReminderLine, ProcDef \o <<"\n">>}

\* Token lists of the parser's tests and of the language's documentation.
TestTokens ==
    {<<Identifier(<<"p">>), Keyword("Newline"), Eof>>,
     <<Keyword("Procedure"), Identifier(<<"p">>), Keyword("Newline"),
       Keyword("Indent"), Identifier(<<"q">>), Keyword("Newline"),
       Keyword("End"), Keyword("Newline"), Eof>>,
     <<Keyword("Reminder"), StrToken(<<"h", "i">>), Eof>>,
     <<Keyword("If"), Keyword("Roll"), Num(6), Keyword("On"),
       RollSpecifier(<<"1", "d", "6">>), Keyword("Plus"), Num(1), Keyword("Arrow"),
       Keyword("SetFact"), StrToken(XIsY), Keyword("Newline"), Eof>>,
     <<Keyword("Roll"), RollSpecifier(<<"2", "d", "2", "0">>), Keyword("Minus"),
       Num(2), Keyword("Newline"), Keyword("Indent"), Num(2), Keyword("Arrow"),
       Keyword("SetFact"), StrToken(XIsY), Keyword("Newline"), Keyword("Indent"),
       NumRange(3, 40), Keyword("Arrow"), Keyword("SetPersistentFact"),
       StrToken(ZIsW), Keyword("Newline"), Keyword("End"), Keyword("Newline"), Eof>>,
     <<Keyword("Roll"), Keyword("On"), Keyword("Table"), StrToken(<<"t">>),
       Keyword("Newline"), Keyword("ClearFact"), StrToken(XIsY), Keyword("Newline"),
       Keyword("ClearPersistentFact"), StrToken(XIsY), Keyword("Newline"), Eof>>,
     <<Keyword("Load"), Keyword("Table"), StrToken(<<"t">>), Keyword("Newline"),
       Keyword("If"), Keyword("FactTest"), StrToken(XIsY), Keyword("Arrow"),
       Identifier(<<"p">>), Keyword("Newline"),
       Keyword("If"), Keyword("PersistentFactTest"), StrToken(XIsY), Keyword("Arrow"),
       Keyword("Roll"), Keyword("On"), Keyword("Table"), StrToken(<<"t">>),
       Keyword("Newline"), Eof>>,
     <<Keyword("SetFact"), StrToken(XIsY), Keyword("Percent"), Keyword("Roll"),
       RollSpecifier(<<"1", "d", "6">>), Keyword("Newline"), Eof>>,
     <<Keyword("Arrow"), Keyword("Newline"), Keyword("Reminder"),
       StrToken(<<"h", "i">>), Keyword("Newline"), Eof>>}

TokenLists ==
    Strings(ListTokens, MaxTokens) \cup TestTokens
        \cup {ExecuteTokens(source).value : source \in ParsedTexts}
        \cup RollTokens \cup SpecifierTokens

\* Parser::new(tokens)
InitParser ==
    /\ \E toks \in TokenLists : parser = ParserNew(toks)
    /\ parse_calls = <<>>
    /\ NoInterpreter
    /\ NoDatabase
    /\ NoScanner
    /\ NoTable
    /\ NoDice
    /\ NoProduction

\* parser.parse().  A call that panics is the last.
ParserParse ==
    /\ production_call = None
    /\ Len(parse_calls) < MaxCalls
    /\ parse_calls # <<>> => parse_calls[Len(parse_calls)].tag = "Ok"
    /\ \E o \in parse(parser) :
        /\ parser' = o.self
        /\ parse_calls' = Append(parse_calls, o.result)
    /\ UNCHANGED <<interpreter_vars, database_vars, scanner_vars, table_vars, dice_vars, production_vars>>

\* One production called on the new parser: what it returns and where it
\* leaves the parser.
ParserProduction(method, outcomes) ==
    /\ parse_calls = <<>>
    /\ production_call = None
    /\ \E o \in outcomes :
        /\ parser' = o.self
        /\ production_call' = Some([method |-> method, result |-> o.result])
    /\ UNCHANGED <<parse_calls, interpreter_vars, database_vars, scanner_vars,
                   table_vars, dice_vars>>

\* parser.statement()
ParserStatement == ParserProduction("statement", parser_statement(parser))

\* parser.consequent()
ParserConsequent == ParserProduction("consequent", parser_consequent(parser))

\* parser.modified_specifier()
ParserModifiedSpecifier ==
    ParserProduction("modified_specifier", parser_modified_specifier(parser))

NextParser ==
    ParserParse \/ ParserStatement \/ ParserConsequent \/ ParserModifiedSpecifier

SpecParser == InitParser /\ [][NextParser]_vars

\* -------------------------------------------------------------- Table

MaxEntries == 2

\* The roll targets of the entries: every Num, OverOrEqual and NumRange over
\* 0..3, the ranges whose bounds are inverted included.
RollTargets ==
    {Num(n) : n \in 0..3}
    \cup {[type |-> "OverOrEqual", n |-> n] : n \in 0..3}
    \cup {NumRange(min, max) : min \in 0..3, max \in 0..3}

\* The entry lists: the value of an entry names its place in the list.
EntryLists ==
    {[i \in 1..Len(roll_targets) |->
         [roll_target |-> roll_targets[i], value |-> NatDebug(i)]] :
     roll_targets \in Strings(RollTargets, MaxEntries)}

\* The dice rolled on a table: one-sided dice, whose total is 1 + modifier,
\* a two-sided die and a die without sides.
TableDice ==
    {[dice_pool |-> <<1>>, modifier |-> modifier] : modifier \in -2..4}
    \cup {[dice_pool |-> <<2>>, modifier |-> 0], [dice_pool |-> <<0>>, modifier |-> 0]}

\* Table::from(entries)
InitTable ==
    /\ \E entries \in EntryLists : table = TableFrom(entries)
    /\ table_roll = None
    /\ NoInterpreter
    /\ NoDatabase
    /\ NoScanner
    /\ NoParser
    /\ NoDice
    /\ NoProduction

\* self.roll(&dice), called as method: let roll_result = dice.roll(), then
\* the match.
TableRollCalled(method, dice) ==
    /\ table.tag = "Ok"
    /\ \/ \E panic \in DiceRollRollPanics(dice) :
            table_roll' = Some([method |-> method, dice |-> dice, total |-> None,
                                result |-> panic])
       \/ \E roll_result \in DiceRollRoll(dice) :
            table_roll' = Some([method |-> method, dice |-> dice,
                                total |-> Some(roll_result.total),
                                result |-> TableRollValue(table.table,
                                                          roll_result.total)])
    /\ UNCHANGED <<table, interpreter_vars, database_vars, scanner_vars, parser_vars,
                   dice_vars, production_vars>>

\* table.roll(&dice)
TableRolled == \E dice \in TableDice : TableRollCalled("roll", dice)

\* table.auto_roll(): a DiceRoll of one Die(self.max_target), without
\* modifier, rolled on the table.
TableAutoRolled ==
    /\ table.tag = "Ok"
    /\ TableRollCalled("auto_roll",
                       [dice_pool |-> <<table.table.max_target>>, modifier |-> 0])

NextTable == TableRolled \/ TableAutoRolled

SpecTable == InitTable /\ [][NextTable]_vars

\* ------------------------------------------------------------- DiceRoll

MaxSpecifierLen == 4

\* Lexemes with more dice, more sides, and numbers beyond i32.
TestSpecifiers ==
    {<<"0", "d", "6">>, <<"1", "d", "6">>, <<"2", "d", "2">>, <<"3", "d", "2">>,
     <<"2", "d", "3">>, <<"1", "d", "1", "d", "1">>,
     <<"9", "9", "9", "9", "9", "9", "9", "9", "9", "9", "d", "1">>,
     <<"1", "d", "9", "9", "9", "9", "9", "9", "9", "9", "9", "9">>}

\* The lexemes the scanner emits as one RollSpecifier token (Scanner::tokens
\* of the lexeme alone returns that token, then Eof).
ScannedSpecifiers ==
    {lexeme \in Strings({"0", "1", "d"}, MaxSpecifierLen) \cup TestSpecifiers :
        /\ tokens(ScannerNew(lexeme)).result.tag = "Ok"
        /\ tokens(ScannerNew(lexeme)).result.toks =
               <<OkToken(RollSpecifier(lexeme)), OkToken(Eof)>>}

\* ModifiedRollSpecifier.modifier: i32
Modifiers == {0, 1, -1, 2, I32Max, -I32Max - 1}

\* A ModifiedRollSpecifier whose base is a RollSpecifier token of the scanner.
InitDice ==
    /\ \E lexeme \in ScannedSpecifiers, modifier \in Modifiers :
        roll_specifier = [base_roll_specifier |-> RollSpecifier(lexeme),
                          modifier |-> modifier]
    /\ dice_roll = None
    /\ dice_roll_result = None
    /\ NoInterpreter
    /\ NoDatabase
    /\ NoScanner
    /\ NoParser
    /\ NoTable
    /\ NoProduction

\* DiceRoll::try_from(&roll_specifier)
DiceRollConverted ==
    /\ dice_roll = None
    /\ dice_roll' = Some(DiceRollTryFrom(roll_specifier))
    /\ UNCHANGED <<roll_specifier, dice_roll_result, interpreter_vars, database_vars,
                   scanner_vars, parser_vars, table_vars, production_vars>>

\* dice_roll.roll(), on &self.  A roll that panics is the last.
DiceRolled ==
    /\ dice_roll # None
    /\ dice_roll[1].tag = "Ok"
    /\ dice_roll_result # None => dice_roll_result[1].tag = "Ok"
    /\ \/ \E panic \in DiceRollRollPanics(dice_roll[1].dice_roll) :
            dice_roll_result' = Some(panic)
       \/ \E roll_result \in DiceRollRoll(dice_roll[1].dice_roll) :
            dice_roll_result' = Some([tag |-> "Ok", roll_result |-> roll_result])
    /\ UNCHANGED <<roll_specifier, dice_roll, interpreter_vars, database_vars,
                   scanner_vars, parser_vars, table_vars, production_vars>>

NextDice == DiceRollConverted \/ DiceRolled

SpecDice == InitDice /\ [][NextDice]_vars

\* ------------------------------------------------------------- claims

\* The latest statement interpret's loop took, and how its evaluation ended.
Evaluated == statements # <<>>

LastStatement == statements[Len(statements)]

\* evaluate_statement returned to interpret (with Ok or with an Err).
Completed == Evaluated /\ status \in {"interpreting", "returned"}

LastResult == records[Len(records)]

\* The interpreter's four fields are those it had before the latest statement.
Unchanged ==
    /\ procedures = before.procedures
    /\ tables = before.tables
    /\ persistent_facts = before.persistent_facts
    /\ local_facts = before.local_facts

\* The interpreter as the latest statement's evaluation received it.
Before ==
    [procedures |-> before.procedures, tables |-> before.tables,
     persistent_facts |-> before.persistent_facts,
     local_facts |-> before.local_facts, depth |-> 0, log |-> <<>>]

\* The log's entry for the call that entry j of the log leaves.
CallOf(j) ==
    CHOOSE i \in 1..(j - 1) :
        /\ log[i].ev = "call" /\ log[i].depth = log[j].depth
        /\ \A k \in (i + 1)..(j - 1) :
               ~(log[k].ev = "call" /\ log[k].depth = log[j].depth)

\* C1: a procedure call that returns Ok, at the top level or nested in
\* another call's body, leaves local_facts equal to what they were when it
\* was made, whatever its body set or cleared.
C1_CallRestoresLocalFacts ==
    /\ \A j \in DOMAIN log :
           log[j].ev = "return" => log[j].local_facts = log[CallOf(j)].local_facts
    /\ (Completed /\ LastStatement.type = "ProcedureCall" /\ LastResult.tag = "Ok")
           => local_facts = before.local_facts

\* q set a local fact, called p, which set another one, and both returned.
C1_Witness ==
    /\ Completed
    /\ LastStatement = ProcedureCall("q")
    /\ LastResult.tag = "Ok"
    /\ \E j \in DOMAIN log :
           /\ log[j].ev = "return" /\ log[j].depth = 1
           /\ log[j].local_facts # {}
    /\ \E r \in 1..Len(LastResult.record.records) :
           LastResult.record.records[r].type = "SetFact"
    /\ local_facts = {}

\* C2: a procedure call that a body statement's Err ends leaves local_facts
\* equal to the snapshot taken when the call was made.
C2_FailedCallRestoresLocalFacts ==
    /\ \A j \in DOMAIN log :
           log[j].ev = "error" => log[j].local_facts = log[CallOf(j)].local_facts
    /\ (Completed /\ LastStatement.type = "ProcedureCall" /\ LastResult.tag = "Err")
           => local_facts = before.local_facts

\* The entries of kind ev that the latest statement logged outside any
\* procedure call.
TopEvents(ev) == SelectSeq(log, LAMBDA e : e.ev = ev /\ e.depth = 0)

ConsequentEvent(consequent) == [ev |-> "consequent", depth |-> 0, statement |-> consequent]

\* A roll target contains a total.
Contains(target, total) ==
    \/ target.type = "Num" /\ total = target.n
    \/ target.type = "NumRange" /\ target.min <= total /\ total <= target.max

\* The first arm whose target contains the total, 0 when none does.
FirstArm(arms, total) ==
    IF \E i \in 1..Len(arms) : Contains(arms[i].target, total)
    THEN CHOOSE i \in 1..Len(arms) :
             /\ Contains(arms[i].target, total)
             /\ \A j \in 1..(i - 1) : ~Contains(arms[j].target, total)
    ELSE 0

\* C3: a matching roll (its arms' targets Num or NumRange) rolls once and
\* evaluates the consequent of the first arm whose target contains the
\* total and of no other arm; with no such arm it evaluates no consequent,
\* records {matched_target: None, consequent: None} and changes nothing.
C3_MatchingRollDispatch ==
    (/\ Completed
     /\ LastStatement.type = "MatchingRoll"
     /\ \A i \in 1..Len(LastStatement.arms) :
            LastStatement.arms[i].target.type \in {"Num", "NumRange"})
    => /\ Len(TopEvents("roll")) = 1
       /\ LET arms == LastStatement.arms
              i == FirstArm(arms, TopEvents("roll")[1].total)
          IN  IF i = 0
              THEN /\ TopEvents("consequent") = <<>>
                   /\ LastResult = OkRecord([type |-> "MatchingRoll",
                                             matched_target |-> None,
                                             consequent |-> None])
                   /\ Unchanged
              ELSE /\ TopEvents("consequent") = <<ConsequentEvent(arms[i].consequent)>>
                   /\ LastResult.tag = "Ok" =>
                          /\ LastResult.record.matched_target = Some(arms[i].target)
                          /\ LastResult.record.consequent # None

\* The total 1 is in the target of both arms, and the first arm was taken.
C3_Witness ==
    /\ Completed
    /\ LastStatement.type = "MatchingRoll"
    /\ Len(LastStatement.arms) = 2
    /\ TopEvents("roll")[1].total = 1
    /\ Contains(LastStatement.arms[1].target, 1)
    /\ Contains(LastStatement.arms[2].target, 1)
    /\ LastResult.record.matched_target = Some(Num(1))

\* The value of the latest statement's antecedent: of a fact check, in the
\* store as it was before the statement; of a dice check, for the total rolled.
AntecedentHolds(antecedent) ==
    CASE antecedent.type = "CheckFact" ->
           FactTryFrom(antecedent.fact).fact \in before.local_facts
      [] antecedent.type = "CheckPersistentFact" ->
           FactTryFrom(antecedent.fact).fact \in before.persistent_facts
      [] antecedent.type = "DiceRoll" ->
           Contains(antecedent.target, TopEvents("roll")[1].total)

\* C4: an if-then evaluates its consequent exactly when its antecedent is
\* true.  Then an Ok record is {antecedent: true, consequent: Some(the
\* consequent's record)}; otherwise the record is {antecedent: false,
\* consequent: None} and procedures, tables and both fact stores are as
\* before.
C4_IfThenEvaluatesConsequentIffTrue ==
    (Completed /\ LastStatement.type = "IfThen")
    => IF AntecedentHolds(LastStatement.antecedent)
       THEN /\ TopEvents("consequent") = <<ConsequentEvent(LastStatement.consequent)>>
            /\ LastResult.tag = "Ok" =>
                   /\ LastResult.record.type = "IfThen"
                   /\ LastResult.record.antecedent = TRUE
                   /\ \E c \in evaluate_consequent(
                                   Before,
                                   LastStatement.consequent) :
                          /\ c.result.tag = "Ok"
                          /\ LastResult.record.consequent = Some(c.result.record)
                          /\ c.self.procedures = procedures
                          /\ c.self.tables = tables
                          /\ c.self.persistent_facts = persistent_facts
                          /\ c.self.local_facts = local_facts
       ELSE /\ TopEvents("consequent") = <<>>
            /\ LastResult = OkRecord([type |-> "IfThen", antecedent |-> FALSE,
                                      consequent |-> None])
            /\ Unchanged

\* The antecedent was false and the consequent, which sets a persistent
\* fact, was not evaluated.
C4_Witness ==
    /\ Completed
    /\ LastStatement = IfThen(CheckFact(XIsY), SetPersistentFact(ZIsW))
    /\ LastResult.record.antecedent = FALSE
    /\ Len(statements) > 1

\* C5: interpret reports every statement it is given: no statement ends it
\* early, the records are as many as the statements taken, and the latest
\* record is a result of evaluating the latest statement in the state the
\* earlier ones left, an Err included.
C5_InterpretReportsEveryStatement ==
    /\ status \in {"interpreting", "returned"}
    /\ Len(records) = Len(statements)
    /\ Evaluated =>
           \E o \in evaluate_statement(Before, LastStatement) :
               /\ o.result = LastResult
               /\ o.self.procedures = procedures
               /\ o.self.tables = tables
               /\ o.self.persistent_facts = persistent_facts
               /\ o.self.local_facts = local_facts

\* The latest statement names a procedure or a table that is not registered.
UnknownName ==
    \/ /\ LastStatement.type = "ProcedureCall"
       /\ LastStatement.identifier \notin DOMAIN before.procedures
    \/ /\ LastStatement.type = "TableRoll"
       /\ LastStatement.table_name \notin DOMAIN before.tables

IsInterpreterError(result) == result.tag = "Err" /\ result.error = "InterpreterError"

\* C6: calling a procedure that is not in the procedure table, or rolling
\* on a table that is not in the registry, returns Err(InterpreterError) to
\* interpret and leaves procedures, tables and both fact stores unchanged.
C6_UnknownNameIsAnInterpreterError ==
    (Evaluated /\ UnknownName)
    => /\ Completed
       /\ IsInterpreterError(LastResult)
       /\ Unchanged

\* The fact strings the latest statement hands to Fact::try_from at the top
\* level: its own, or its antecedent's.
FactStrings ==
    CASE LastStatement.type \in {"ClearFact", "SetPersistentFact", "ClearPersistentFact"} ->
           {LastStatement.fact}
      [] LastStatement.type = "SetFact" /\ LastStatement.crawl_str.type = "Str" ->
           {LastStatement.crawl_str.raw_string}
      [] LastStatement.type = "IfThen"
         /\ LastStatement.antecedent.type \in {"CheckFact", "CheckPersistentFact"} ->
           {LastStatement.antecedent.fact}
      [] OTHER -> {}

\* The number of spaces in a string.
Spaces(s) == Cardinality({i \in 1..Len(s) : s[i] = " "})

\* C7: a fact operation on a string with fewer than two spaces returns
\* Err(InterpreterError) to interpret and leaves both fact stores unchanged.
C7_UnsplittableFactIsAnInterpreterError ==
    (Evaluated /\ \E s \in FactStrings : Spaces(s) < 2)
    => /\ Completed
       /\ IsInterpreterError(LastResult)
       /\ persistent_facts = before.persistent_facts
       /\ local_facts = before.local_facts

\* The body registered under name calls name.
CallsSelf(name) ==
    /\ name \in DOMAIN before.procedures
    /\ \E i \in 1..Len(before.procedures[name].body) :
           before.procedures[name].body[i] = ProcedureCall(name)

\* C8: no statement's evaluation exhausts the stack, and the call of a
\* procedure whose body calls it returns Err(InterpreterError) to interpret.
C8_RecursionEndsWithInterpreterError ==
    /\ status # "stack overflow"
    /\ (Evaluated /\ LastStatement.type = "ProcedureCall"
          /\ CallsSelf(LastStatement.identifier))
       => Completed /\ IsInterpreterError(LastResult)

\* The records of the statements that took effect under a record, in the
\* order of their evaluation: those of a call's body, and of a consequent.
RECURSIVE Effects(_)
RECURSIVE EffectsOfAll(_, _)
Effects(record) ==
    CASE record.type = "ProcedureCall" -> EffectsOfAll(record.records, 1)
      [] record.type \in {"IfThen", "MatchingRoll"} ->
           IF record.consequent = None THEN <<>> ELSE Effects(record.consequent[1])
      [] OTHER -> <<record>>

EffectsOfAll(recs, i) ==
    IF i > Len(recs) THEN <<>> ELSE Effects(recs[i]) \o EffectsOfAll(recs, i + 1)

IsPersistentEffect(e) == e.type \in {"SetPersistentFact", "ClearPersistentFact"}

\* C9: when a procedure call has returned Ok, each persistent fact is in
\* persistent_facts if the last thing the body (with the bodies it called)
\* did to it was to set it and absent if it was to clear it, and every
\* procedure the body defined is in the procedure table.
C9_BodyEffectsSurviveTheCall ==
    (Completed /\ LastStatement.type = "ProcedureCall" /\ LastResult.tag = "Ok")
    => LET effects == Effects(LastResult.record) IN
       \A i \in 1..Len(effects) :
           /\ (/\ IsPersistentEffect(effects[i])
               /\ \A j \in (i + 1)..Len(effects) :
                      ~(IsPersistentEffect(effects[j]) /\ effects[j].fact = effects[i].fact))
              => (FactTryFrom(effects[i].fact).fact \in persistent_facts
                    <=> effects[i].type = "SetPersistentFact")
           /\ effects[i].type = "ProcedureDefinition"
              => effects[i].identifier \in DOMAIN procedures

\* A call whose body defined a procedure the table did not have and set a
\* persistent fact that was absent.
C9_Witness ==
    /\ Completed
    /\ LastStatement.type = "ProcedureCall"
    /\ LastResult.tag = "Ok"
    /\ \E e \in {Effects(LastResult.record)[i] : i \in 1..Len(Effects(LastResult.record))} :
           /\ e.type = "ProcedureDefinition"
           /\ e.identifier \notin DOMAIN before.procedures
    /\ \E e \in {Effects(LastResult.record)[i] : i \in 1..Len(Effects(LastResult.record))} :
           /\ e.type = "SetPersistentFact"
           /\ FactTryFrom(e.fact).fact \notin before.persistent_facts
           /\ FactTryFrom(e.fact).fact \in persistent_facts

\* The latest statement is a call of name, statement k defined name at the
\* top level, and nothing since has defined it again: every statement in
\* between returned Ok and reports no definition of name.
LatestDefinition(k, name) ==
    /\ k \in 1..(Len(statements) - 1)
    /\ statements[k].type = "Procedure"
    /\ statements[k].declaration = name
    /\ \A j \in (k + 1)..(Len(statements) - 1) :
           /\ records[j].tag = "Ok"
           /\ \A i \in 1..Len(Effects(records[j].record)) :
                  Effects(records[j].record)[i]
                      # [type |-> "ProcedureDefinition", identifier |-> name]

\* C10: a procedure definition returns ProcedureDefinition(name), puts the
\* body under name in the procedure table, whatever was there, leaves the
\* other procedures, the tables and both fact stores as they were and
\* evaluates nothing; a later call of name returns the records of the body
\* the latest definition of name gave.
C10_DefinitionRegistersWithoutRunning ==
    /\ (Evaluated /\ LastStatement.type = "Procedure")
       => /\ Completed
          /\ LastResult = OkRecord([type |-> "ProcedureDefinition",
                                    identifier |-> LastStatement.declaration])
          /\ DOMAIN procedures = DOMAIN before.procedures \cup {LastStatement.declaration}
          /\ procedures[LastStatement.declaration].body = LastStatement.body
          /\ \A other \in DOMAIN before.procedures :
                 other # LastStatement.declaration
                     => procedures[other] = before.procedures[other]
          /\ tables = before.tables
          /\ persistent_facts = before.persistent_facts
          /\ local_facts = before.local_facts
          /\ log = <<>>
    /\ (Completed /\ LastStatement.type = "ProcedureCall" /\ LastResult.tag = "Ok")
       => \A k \in 1..(Len(statements) - 1) :
              LatestDefinition(k, LastStatement.identifier)
                  => \E o \in procedure_call_body([Before EXCEPT !.depth = 1],
                                                  statements[k].body, 1, <<>>) :
                         /\ o.result.tag = "Ok"
                         /\ o.result.records = LastResult.record.records

\* p was defined twice with different bodies, the second definition changed
\* no fact, and the call of p returned the three records of the second body.
C10_Witness ==
    /\ Completed
    /\ Len(statements) = 3
    /\ statements[1] = Procedure("p", SetsFacts)
    /\ statements[2] = Procedure("p", ClearsFacts)
    /\ statements[3] = ProcedureCall("p")
    /\ LastResult.tag = "Ok"
    /\ Len(LastResult.record.records) = Len(ClearsFacts)
    /\ persistent_facts = {}

\* The fact a statement's fact string converts to.
FactOf(s) == FactTryFrom(s).fact

\* C11: set-fact and clear-fact add the fact to and remove it from
\* local_facts and leave persistent_facts as they were; the persistent
\* operations do the same to persistent_facts and leave local_facts as they
\* were; a fact check is true exactly when the fact is in local_facts, a
\* persistent check exactly when it is in persistent_facts.
C11_FactStoresAreIndependent ==
    (Completed /\ LastResult.tag = "Ok")
    => CASE LastStatement.type = "SetFact" ->
              /\ local_facts = before.local_facts \cup {FactOf(LastResult.record.fact)}
              /\ persistent_facts = before.persistent_facts
         [] LastStatement.type = "ClearFact" ->
              /\ local_facts = before.local_facts \ {FactOf(LastStatement.fact)}
              /\ persistent_facts = before.persistent_facts
         [] LastStatement.type = "SetPersistentFact" ->
              /\ persistent_facts = before.persistent_facts \cup {FactOf(LastStatement.fact)}
              /\ local_facts = before.local_facts
         [] LastStatement.type = "ClearPersistentFact" ->
              /\ persistent_facts = before.persistent_facts \ {FactOf(LastStatement.fact)}
              /\ local_facts = before.local_facts
         [] LastStatement.type = "IfThen" ->
              CASE LastStatement.antecedent.type = "CheckFact" ->
                     LastResult.record.antecedent
                         <=> FactOf(LastStatement.antecedent.fact) \in before.local_facts
                [] LastStatement.antecedent.type = "CheckPersistentFact" ->
                     LastResult.record.antecedent
                         <=> FactOf(LastStatement.antecedent.fact) \in before.persistent_facts
                [] OTHER -> TRUE
         [] OTHER -> TRUE

\* A fact held by both stores was cleared from local_facts and is still in
\* persistent_facts.
C11_Witness ==
    /\ Completed
    /\ LastStatement = ClearFact(XIsY)
    /\ FactOf(XIsY) \in before.local_facts
    /\ FactOf(XIsY) \in before.persistent_facts
    /\ FactOf(XIsY) \notin local_facts
    /\ FactOf(XIsY) \in persistent_facts

\* The facts of the database after its call i.
FactsAfter(i) ==
    IF i = Len(database_calls) THEN database ELSE database_calls[i + 1].facts

\* C12: a check that follows set(f) is true of f and one that follows
\* clear(f) is false of f; a second set(f) leaves the database as the first
\* left it; set(f) and clear(f) leave every other fact in or out of the
\* database as it was.
C12_FactDatabaseAlgebra ==
    \A i \in 1..Len(database_calls) :
        LET call == database_calls[i] IN
        /\ (i > 1 /\ call.method = "check" /\ database_calls[i - 1].fact = call.fact)
           => /\ database_calls[i - 1].method = "set" => call.result = TRUE
              /\ database_calls[i - 1].method = "clear" => call.result = FALSE
        /\ (i > 1 /\ call.method = "set" /\ database_calls[i - 1].method = "set"
              /\ database_calls[i - 1].fact = call.fact)
           => FactsAfter(i) = call.facts
        /\ call.method \in {"set", "clear"}
           => \A other \in Facts \ {call.fact} :
                  other \in FactsAfter(i) <=> other \in call.facts

\* A fact the database lacked was set beside another it held, set again,
\* and checked.
C12_Witness ==
    /\ Len(database_calls) = 3
    /\ database_calls[1].method = "set"
    /\ database_calls[2].method = "set"
    /\ database_calls[3].method = "check"
    /\ database_calls[1].fact \notin database_calls[1].facts
    /\ database_calls[1].facts # {}
    /\ database_calls[2].fact = database_calls[1].fact
    /\ database_calls[3].fact = database_calls[1].fact
    /\ database_calls[3].result = TRUE

\* C13: the first call of tokens returns a sequence that ends with Ok(Eof)
\* and holds Ok(Eof) nowhere else, whatever the source, the empty one
\* included.
C13_TokensEndWithOneEof ==
    tokens_calls # <<>>
    => /\ tokens_calls[1].tag = "Ok"
       /\ tokens_calls[1].toks # <<>>
       /\ \A i \in 1..Len(tokens_calls[1].toks) :
              tokens_calls[1].toks[i] = OkToken(Eof) <=> i = Len(tokens_calls[1].toks)

\* C14: after the first call of tokens has returned, the scanner is at the
\* end of its source and every later call returns the empty sequence.
C14_ScannerIsSingleUse ==
    /\ (tokens_calls # <<>> /\ tokens_calls[1].tag = "Ok") => scanner_is_at_end(scanner)
    /\ \A i \in 2..Len(tokens_calls) : tokens_calls[i] = [tag |-> "Ok", toks |-> <<>>]

\* The first call returned tokens and an Eof, the second and the third
\* returned nothing.
C14_Witness ==
    /\ Len(tokens_calls) = 3
    /\ scanner.source = Roll2To10
    /\ tokens_calls[1].toks
           = <<OkToken(Keyword("Roll")), OkToken(NumRange(2, 10)), OkToken(Eof)>>
    /\ tokens_calls[2].toks = <<>>
    /\ tokens_calls[3].toks = <<>>

\* C15: no call of tokens aborts or stops at an error: it returns a
\* sequence, a lexical failure is an Err entry of it, and the scanner has
\* gone through the source to its end.
C15_ScanningNeverAborts ==
    \A i \in 1..Len(tokens_calls) :
        /\ tokens_calls[i].tag = "Ok"
        /\ scanner_is_at_end(scanner)

\* digits 'd' digits, with one 'd': the regular expression ^\d+d\d+$.
IsBaseRollSpecifier(lexeme) ==
    \E d \in 2..(Len(lexeme) - 1) :
        /\ lexeme[d] = "d"
        /\ \A i \in (1..Len(lexeme)) \ {d} : lexeme[i] \in Digits

\* C16: every RollSpecifier token the scanner emits carries a lexeme of
\* the form digits 'd' digits with exactly one 'd'.
C16_RollSpecifierHasOneD ==
    \A i \in 1..Len(tokens_calls) :
        tokens_calls[i].tag = "Ok"
        => \A j \in 1..Len(tokens_calls[i].toks) :
               (/\ tokens_calls[i].toks[j].tag = "Ok"
                /\ tokens_calls[i].toks[j].token.type = "RollSpecifier")
               => IsBaseRollSpecifier(tokens_calls[i].toks[j].token.lexeme)

\* What a first call of parse made of the tokens of source, scanned and
\* unwrapped as Crawl::execute does.
ParsedFrom(source) ==
    /\ parser.tokens = ExecuteTokens(source).value
    /\ parse_calls # <<>>

\* if roll 1-3 on 1d6 => reminder "hi", as a statement.
IfRollReminderStatement ==
    IfThen(DiceRoll(NumRange(1, 3), ModifiedRollSpecifier(<<"1", "d", "6">>, 0)),
           Reminder(<<"h", "i">>))

\* C17: a parse error is confined to its statement and never aborts parsing:
\* for every token list parse returns, and when the first top-level
\* statement fails to parse the first entry of what it returns is an Err.
C17_ParseErrorIsConfined ==
    \A i \in DOMAIN parse_calls :
        /\ parse_calls[i].tag = "Ok"
        /\ (/\ i = 1
            /\ ~parser_is_at_end(ParserNew(parser.tokens))
            /\ \E o \in parser_statement(ParserNew(parser.tokens)) : ~Returned(o))
           => /\ parse_calls[1].value # <<>>
              /\ parse_calls[1].value[1].tag = "Err"

\* C18, as stated: scanning and parsing the text
\* if roll 1-3 on 1d6 => reminder "hi" yields exactly one statement, the
\* Ok(IfThen) of a DiceRoll with target NumRange(1, 3), base "1d6" and
\* modifier 0, and of Reminder("hi").
C18_RoundTripYieldsIfThen ==
    ParsedFrom(IfRollReminder)
        => parse_calls[1] = OkParsed(<<OkParsed(IfRollReminderStatement)>>)

\* C18, amended: scanning and parsing that text followed by a newline yields
\* exactly that one statement.
C18_RoundTripOfTheLineYieldsIfThen ==
    ParsedFrom(IfRollReminderLine)
        => parse_calls[1] = OkParsed(<<OkParsed(IfRollReminderStatement)>>)

C18_Witness ==
    /\ ParsedFrom(IfRollReminderLine)
    /\ Len(parse_calls[1].value) = 1
    /\ parse_calls[1].value[1].value.type = "IfThen"

\* The roll target of an entry covers k.
Covers(roll_target, k) ==
    CASE roll_target.type = "Num" -> k = roll_target.n
      [] roll_target.type = "OverOrEqual" -> k = roll_target.n
      [] roll_target.type = "NumRange" -> roll_target.min <= k /\ k <= roll_target.max

\* The places in the list of the entries that cover k.
Covering(entries, k) == {i \in 1..Len(entries) : Covers(entries[i].roll_target, k)}

\* C19: the index Table::from builds is exact: k is a key of roll_targets
\* iff some entry's target covers k, roll_targets[k] is the greatest list
\* index (counted from 0) of an entry covering k, and min_target and
\* max_target are the least and the greatest key.
C19_TableIndexIsExact ==
    table.tag = "Ok" =>
        LET entries == table.table.entries
            roll_targets == table.table.roll_targets
            keys == DOMAIN roll_targets
        IN  /\ entries # <<>>
            /\ \A k \in -1..6 : k \in keys <=> Covering(entries, k) # {}
            /\ \A k \in keys : k \in -1..6
            /\ \A k \in keys :
                /\ roll_targets[k] + 1 \in Covering(entries, k)
                /\ \A i \in Covering(entries, k) : i <= roll_targets[k] + 1
            /\ table.table.min_target \in keys
            /\ table.table.max_target \in keys
            /\ \A k \in keys : table.table.min_target <= k /\ k <= table.table.max_target

\* Two entries cover the same target, which the index gives to the later
\* one, and the earlier one alone covers another.
C19_Witness ==
    /\ table.tag = "Ok"
    /\ \E k \in DOMAIN table.table.roll_targets :
        /\ Covering(table.table.entries, k) = {1, 2}
        /\ table.table.roll_targets[k] = 1
    /\ \E k \in DOMAIN table.table.roll_targets :
        /\ Covering(table.table.entries, k) = {1}
        /\ table.table.roll_targets[k] = 0

\* The entry that roll_targets indexes at the key k.
EntryAt(k) == [tag |-> "Ok", entry |-> table.table.entries[table.table.roll_targets[k] + 1]]

\* C20: Table::roll resolves a total t to the entry indexed at t when t is a
\* key; below min_target to the entry indexed at min_target; above
\* max_target to the entry indexed at max_target; and in a gap between them
\* to Err(InterpreterError).
C20_TableRollResolution ==
    table_roll # None /\ table_roll[1].total # None =>
        LET t == table_roll[1].total[1]
            result == table_roll[1].result
        IN  IF t \in DOMAIN table.table.roll_targets THEN result = EntryAt(t)
            ELSE IF t < table.table.min_target
            THEN result = EntryAt(table.table.min_target)
            ELSE IF t > table.table.max_target
            THEN result = EntryAt(table.table.max_target)
            ELSE result.tag = "Err" /\ result.error = "InterpreterError"

\* A total above the target of an OverOrEqual entry that holds the greatest
\* target was rolled, with a gap in the table below it.
C20_Witness ==
    /\ table_roll # None
    /\ table_roll[1].total # None
    /\ table_roll[1].total[1] > table.table.max_target
    /\ table_roll[1].result.tag = "Ok"
    /\ table_roll[1].result.entry.roll_target =
           [type |-> "OverOrEqual", n |-> table.table.max_target]
    /\ \E k \in table.table.min_target..table.table.max_target :
        k \notin DOMAIN table.table.roll_targets

\* C21: any table can be auto-rolled: auto_roll returns Ok with an entry of
\* the table, for every draw of its die, without error or abort.
C21_AutoRollReturnsAnEntry ==
    table_roll # None /\ table_roll[1].method = "auto_roll" =>
        /\ table_roll[1].result.tag = "Ok"
        /\ \E i \in 1..Len(table.table.entries) :
            table_roll[1].result.entry = table.table.entries[i]
\* The draws of a DiceRollResult, and the numbers N, M of the specifier
\* "NdM" the DiceRoll was built from.
Draws == dice_roll_result[1].roll_result.pool_result

SpecifierCaptures == RollSpecifierCaptures(roll_specifier.base_roll_specifier.lexeme)[1]

\* C22: for a DiceRoll built from "NdM" with modifier k (N >= 0, M >= 1),
\* every roll produces exactly N draws, each in [1, M], and a total that is
\* the sum of the draws plus k, hence N + k <= total <= N*M + k.
C22_RollTotalIsSumPlusModifier ==
    /\ dice_roll # None /\ dice_roll[1].tag = "Ok"
    /\ dice_roll[1].dice_roll.dice_pool # <<>> =>
           dice_roll[1].dice_roll.dice_pool[1] >= 1
    /\ dice_roll_result # None
    => LET N == ParseI32(SpecifierCaptures.n_dice[1])[1]
           M == ParseI32(SpecifierCaptures.n_sides)[1]
           k == roll_specifier.modifier
       IN  /\ dice_roll_result[1].tag = "Ok"
           /\ Len(Draws) = N
           /\ \A i \in 1..N : Draws[i] \in 1..M
           /\ ~I32AddOverflows(SumSeq(Draws), k)
           /\ dice_roll_result[1].roll_result.total = SumSeq(Draws) + k
           /\ N <= SumSeq(Draws) /\ SumSeq(Draws) <= N * M
\* The same for the rolls whose sum of draws plus k is an i32.
C22_RollTotalWithinI32 ==
    /\ dice_roll # None /\ dice_roll[1].tag = "Ok"
    /\ dice_roll[1].dice_roll.dice_pool # <<>> =>
           dice_roll[1].dice_roll.dice_pool[1] >= 1
    /\ dice_roll_result # None
    /\ dice_roll_result[1].tag = "Ok"
    /\ ~I32AddOverflows(SumSeq(Draws), roll_specifier.modifier)
    => LET N == ParseI32(SpecifierCaptures.n_dice[1])[1]
           M == ParseI32(SpecifierCaptures.n_sides)[1]
       IN  /\ Len(Draws) = N
           /\ \A i \in 1..N : Draws[i] \in 1..M
           /\ dice_roll_result[1].roll_result.total
                  = SumSeq(Draws) + roll_specifier.modifier
           /\ N <= SumSeq(Draws) /\ SumSeq(Draws) <= N * M
\* C28: every RollSpecifier token the scanner can emit, with every modifier,
\* converted to a DiceRoll and rolled, returns a total or an
\* InterpreterError and never aborts.
C28_ConvertAndRollNeverAbort ==
    /\ dice_roll # None =>
        \/ dice_roll[1].tag = "Ok"
        \/ dice_roll[1].tag = "Err" /\ dice_roll[1].error = "InterpreterError"
    /\ dice_roll_result # None =>
        \/ dice_roll_result[1].tag = "Ok"
        \/ dice_roll_result[1].tag = "Err"
              /\ dice_roll_result[1].error = "InterpreterError"
\* The format string with its i-th {} replaced by the i-th replacement,
\* left to right.
RECURSIVE Substituted(_, _)
Substituted(format_string, replacements) ==
    IF format_string = <<>> THEN <<>>
    ELSE IF /\ Len(format_string) >= 2
            /\ format_string[1] = "{" /\ format_string[2] = "}"
            /\ replacements # <<>>
         THEN Head(replacements)
              \o Substituted(SubSeq(format_string, 3, Len(format_string)),
                             Tail(replacements))
         ELSE <<Head(format_string)>> \o Substituted(Tail(format_string), replacements)

\* The results of the dice rolls embedded in the latest statement's string,
\* in the order of their evaluation, each as the interpreter formats it.
ExpressionResults ==
    [i \in 1..Len(TopEvents("roll")) |->
        StatementRecordDebug([type |-> "NontargetedRoll",
                              total |-> TopEvents("roll")[i].total])]

\* C23: string interpolation substitutes every expression, left to right:
\* with k expressions and k {} placeholders, the evaluated string has the
\* i-th placeholder replaced by the i-th expression's result, and no
\* placeholder remains.
C23_EveryPlaceholderIsSubstituted ==
    (/\ Completed
     /\ LastStatement.type = "SetFact"
     /\ LastStatement.crawl_str.type = "InterpolatedStr"
     /\ \A i \in 1..Len(LastStatement.crawl_str.expressions) :
            LastStatement.crawl_str.expressions[i].type = "NontargetedRoll"
     /\ LastResult.tag = "Ok")
    => /\ LastResult.record.fact =
              Substituted(LastStatement.crawl_str.format_string, ExpressionResults)
       /\ \A i \in 1..(Len(LastResult.record.fact) - 1) :
              ~(LastResult.record.fact[i] = "{" /\ LastResult.record.fact[i + 1] = "}")
\* C24: SetFact evaluates its CrawlStr before it touches the store: when it
\* returns Ok, local_facts has gained exactly the fact parsed from the
\* evaluated string and the record is SetFact(evaluated string); when an
\* embedded expression fails, SetFact returns that error and local_facts is
\* as before.
C24_SetFactEvaluatesBeforeStoring ==
    (Completed /\ LastStatement.type = "SetFact")
    => \E o \in evaluate_str(Before, LastStatement.crawl_str) :
           /\ o.self.log = log
           /\ IF Returned(o)
              THEN /\ LastResult = OkRecord([type |-> "SetFact",
                                             fact |-> o.result.string])
                   /\ local_facts = before.local_facts
                                        \cup {FactTryFrom(o.result.string).fact}
              ELSE /\ LastResult = o.result
                   /\ local_facts = before.local_facts

\* A SetFact whose embedded table roll succeeded, then one whose embedded
\* table roll failed, with the fact of the first still the only local fact.
C24_Witness ==
    /\ Completed
    /\ statements = <<LoadTable("weather"), WeatherIs, WeatherIs>>
    /\ records[2].tag = "Ok"
    /\ LastResult.tag = "Err"
    /\ local_facts = {FactTryFrom(records[2].record.fact).fact}
\* The runs of a body from an interpreter: the outcomes of its statements
\* evaluated one after another, each by the interpreter the one before
\* left, up to the first that does not return Ok.
RECURSIVE InOrder(_, _)
InOrder(self, body) ==
    IF body = <<>> THEN {<<>>}
    ELSE UNION {IF Returned(o)
                THEN {<<o>> \o rest : rest \in InOrder(o.self, Tail(body))}
                ELSE {<<o>>} :
                o \in evaluate_statement(self, Head(body))}

\* The body of the procedure the latest statement calls.
CalledBody == before.procedures[LastStatement.identifier].body

\* C25: a successful ProcedureCall(p) evaluates the statements of p's body
\* in body order, each in the state the one before left, and its record
\* holds one nested record per body statement in that order; when body
\* statement j fails, the statements after j are not evaluated: the call
\* ends with j's error and the stores are as j left them.
C25_BodyRunsInOrder ==
    (/\ Completed
     /\ LastStatement.type = "ProcedureCall"
     /\ LastStatement.identifier \in DOMAIN before.procedures)
    => \E run \in InOrder([Before EXCEPT !.depth = 1], CalledBody) :
           /\ IF LastResult.tag = "Ok"
              THEN /\ Len(run) = Len(CalledBody)
                   /\ \A i \in 1..Len(run) : Returned(run[i])
                   /\ LastResult.record.identifier = LastStatement.identifier
                   /\ LastResult.record.records =
                          [i \in 1..Len(run) |-> run[i].result.record]
              ELSE /\ run # <<>>
                   /\ run[Len(run)].result = LastResult
                   /\ local_facts = run[Len(run)].self.local_facts
           /\ run # <<>> =>
                  /\ persistent_facts = run[Len(run)].self.persistent_facts
                  /\ procedures = run[Len(run)].self.procedures
                  /\ tables = run[Len(run)].self.tables

\* q set a local fact, called p, and then found the fact it had set: its
\* third statement saw what the first two left.
C25_Witness ==
    /\ Completed
    /\ LastStatement = ProcedureCall("q")
    /\ CalledBody = CallsP
    /\ LastResult.tag = "Ok"
    /\ Len(LastResult.record.records) = 3
    /\ LastResult.record.records[2].type = "ProcedureCall"
    /\ LastResult.record.records[3].antecedent = TRUE
\* A statement of a body clears the local fact of string f itself, or as
\* its consequent.
ClearsDirectly(statement, f) ==
    \/ statement.type = "ClearFact"
           /\ FactTryFrom(statement.fact) = FactTryFrom(f)
    \/ statement.type = "IfThen"
           /\ statement.consequent.type = "ClearFact"
           /\ FactTryFrom(statement.consequent.fact) = FactTryFrom(f)

\* C26: local facts are inherited by a callee and restored per call level:
\* in a called body, the check of a fact that was in local_facts when the
\* call was made is true until the body clears it; and when a call made
\* from inside a body returns, local_facts are what they were just before
\* that call, the outer body's own changes included.
C26_LocalFactsAreInheritedAndRestored ==
    /\ (Completed /\ LastStatement.type = "ProcedureCall" /\ LastResult.tag = "Ok")
       => \A i \in 1..Len(CalledBody) :
              (/\ CalledBody[i].type = "IfThen"
               /\ CalledBody[i].antecedent.type = "CheckFact"
               /\ FactTryFrom(CalledBody[i].antecedent.fact).tag = "Ok"
               /\ FactTryFrom(CalledBody[i].antecedent.fact).fact \in before.local_facts
               /\ \A j \in 1..(i - 1) :
                      ~ClearsDirectly(CalledBody[j], CalledBody[i].antecedent.fact))
              => LastResult.record.records[i].antecedent = TRUE
    /\ \A j \in DOMAIN log :
           (log[j].ev = "return" /\ log[j].depth >= 1)
           => log[j].local_facts = log[CallOf(j)].local_facts

\* q found the fact its caller had set, set one of its own and called p,
\* which cleared the caller's; after p's return q had both again.
C26_Witness ==
    /\ Completed
    /\ LastStatement = ProcedureCall("q")
    /\ CalledBody = Inherits
    /\ LastResult.tag = "Ok"
    /\ LastResult.record.records[1].antecedent = TRUE
    /\ LastResult.record.records[5].antecedent = TRUE
    /\ \E j \in DOMAIN log :
           /\ log[j].ev = "return" /\ log[j].depth = 1
           /\ log[j].local_facts # before.local_facts
           /\ before.local_facts # {}
           /\ before.local_facts \subseteq log[j].local_facts
\* The statement kinds of the claim.
ConsequentKinds ==
    {"ClearFact", "ClearPersistentFact", "ProcedureCall", "Reminder", "TableRoll",
     "SetFact", "SetPersistentFact"}

\* The kinds of the statements Parser::consequent returns, whatever token
\* the consequent starts with.
ParsedConsequentKinds ==
    {o.result.value.type :
         o \in {o \in UNION {parser_consequent(
                                 ParserNew(<<first>> \o tail \o <<Eof, Eof>>)) :
                                 first \in TokenKinds, tail \in ConsequentTails} :
                   Returned(o)}}

\* C27: the parser and the interpreter agree on what a consequent may be:
\* the kinds Parser::consequent produces are the kinds
\* Interpreter::evaluate_consequent evaluates (ClearFact,
\* ClearPersistentFact, ProcedureCall, Reminder, TableRoll, SetFact,
\* SetPersistentFact); a statement of any other kind given as a consequent
\* yields Err(InterpreterError) and changes nothing.  (The parser's side
\* does not depend on the interpreter: it is evaluated in the initial states.)
C27_ConsequentKindsAgree ==
    /\ ~Evaluated => ParsedConsequentKinds = ConsequentKinds
    /\ (Completed /\ TopEvents("consequent") # <<>>)
       => IF TopEvents("consequent")[1].statement.type \in ConsequentKinds
          THEN \E c \in evaluate_statement(Before,
                                           TopEvents("consequent")[1].statement) :
                   /\ LastResult.tag = "Ok" =>
                          /\ c.result.tag = "Ok"
                          /\ LastResult.record.consequent = Some(c.result.record)
                   /\ LastResult.tag = "Err" => LastResult = c.result
          ELSE /\ IsInterpreterError(LastResult)
               /\ LastResult.reason = "Invalid statement as consequent"
               /\ Unchanged

\* A matching roll whose matched arm had a procedure definition as its
\* consequent, after an if-then whose consequent set a fact.
C27_Witness ==
    /\ Completed
    /\ Len(statements) > 1
    /\ statements[1].type = "IfThen"
    /\ records[1].tag = "Ok"
    /\ records[1].record.consequent # None
    /\ LastStatement.type = "MatchingRoll"
    /\ TopEvents("consequent") # <<>>
    /\ TopEvents("consequent")[1].statement.type = "Procedure"
    /\ LastResult.tag = "Err"
\* The source is one numeric lexeme: a digit, then digits, 'd' and '-'.
IsNumericLexeme(source) ==
    /\ source # <<>>
    /\ source[1] \in Digits
    /\ \A i \in 1..Len(source) : source[i] \in Digits \cup {"d", "-"}

\* digits '-' digits, the numbers being min and max.
IsRangeOf(lexeme, min, max) ==
    \E m \in 2..(Len(lexeme) - 1) :
        /\ lexeme[m] = "-"
        /\ \A i \in (1..Len(lexeme)) \ {m} : lexeme[i] \in Digits
        /\ ParseI32(SubSeq(lexeme, 1, m - 1)) = Some(min)
        /\ ParseI32(SubSeq(lexeme, m + 1, Len(lexeme))) = Some(max)

\* C29: a numeric lexeme is never both a dice roll and a range: a lexeme
\* with both 'd' and '-' yields the ScannerError "can't be a dice roll and
\* dice range" (when a 'd' is not followed by a digit, the scanner's error
\* about that 'd' comes first), and every NumRange(a, b) comes from a lexeme
\* of the form digits '-' digits whose numbers are a and b.
C29_RangeAndDiceAreExclusive ==
    (/\ tokens_calls # <<>>
     /\ tokens_calls[1].tag = "Ok"
     /\ IsNumericLexeme(scanner.source))
    => LET first == tokens_calls[1].toks[1]
           lexeme == scanner.source
       IN  /\ (first.tag = "Ok" /\ first.token.type = "NumRange")
                  => IsRangeOf(lexeme, first.token.min, first.token.max)
           /\ (\E i, j \in 1..Len(lexeme) : lexeme[i] = "d" /\ lexeme[j] = "-")
                  => /\ first.tag = "Err"
                     /\ first.error = "ScannerError"
                     /\ (\A i \in 1..Len(lexeme) :
                             lexeme[i] = "d" =>
                                 i < Len(lexeme) /\ lexeme[i + 1] \in Digits)
                        => first.reason = "can't be a dice roll and dice range"

\* The source without the spaces at its end.
RECURSIVE TrimEnd(_)
TrimEnd(source) ==
    IF source # <<>> /\ source[Len(source)] = " "
    THEN TrimEnd(SubSeq(source, 1, Len(source) - 1))
    ELSE source

\* C30: spaces are consumed silently wherever they occur: a space outside a
\* string literal produces neither a token nor an error, the spaces at the
\* very end of the source included: a source that has tokens yields the
\* same tokens with spaces after them.
C30_SpacesAreSilent ==
    (/\ tokens_calls # <<>>
     /\ \A i \in 1..Len(scanner.source) : scanner.source[i] # "\""
     /\ TrimEnd(scanner.source) # <<>>)
    => tokens_calls[1] = tokens(ScannerNew(TrimEnd(scanner.source))).result
\* The number of newline characters in a source.
RECURSIVE Newlines(_)
Newlines(source) ==
    IF source = <<>> THEN 0
    ELSE (IF Head(source) = "\n" THEN 1 ELSE 0) + Newlines(Tail(source))

\* C31: when tokens has consumed the whole source, the scanner's line
\* counter equals the number of newline characters in the source: those
\* that produced Newline tokens and those inside a string literal, directly
\* after the opening quote included.
C31_LineCountsNewlines ==
    (/\ tokens_calls # <<>>
     /\ tokens_calls[1].tag = "Ok"
     /\ scanner_is_at_end(scanner))
    => scanner.line = Newlines(scanner.source)
\* C32: every keyword of the scanner's keyword table is producible:
\* scanning a source that consists of the keyword followed by a space or a
\* newline yields the keyword's token as its first token, and no error for
\* the keyword.
C32_EveryKeywordIsProducible ==
    (/\ tokens_calls # <<>>
     /\ tokens_calls[1].tag = "Ok"
     /\ scanner.source \in KeywordSources)
    => tokens_calls[1].toks[1] =
           OkToken(token_for_keyword(
                       SubSeq(scanner.source, 1, Len(scanner.source) - 1))[1])
\* The scan positions at the calls of next_token that tokens makes from
\* self, for at most fuel calls, then the position the last of them left.
RECURSIVE ScanPositions(_, _)
ScanPositions(self, fuel) ==
    IF scanner_is_at_end(self) \/ fuel = 0 THEN <<self.position>>
    ELSE LET next == next_token([self EXCEPT !.start = self.position]) IN
         <<self.position>>
         \o (IF next.result.tag = "Panic" THEN <<next.self.position>>
             ELSE ScanPositions(next.self, fuel - 1))

\* C33: scanning terminates on every finite source: each call of next_token
\* that tokens makes increases the scan position by at least one, whether
\* it returns a token or an error, so the scanner is at the end after at
\* most as many calls as the source has characters, and tokens returns
\* their results and Eof.
C33_ScanningTerminates ==
    LET positions == ScanPositions(ScannerNew(scanner.source),
                                   Len(scanner.source) + 1)
    IN  /\ \A i \in 1..(Len(positions) - 1) : positions[i] < positions[i + 1]
        /\ Len(positions) - 1 <= Len(scanner.source)
        /\ (tokens_calls # <<>> /\ tokens_calls[1].tag = "Ok" /\ scanner.source # <<>>)
           => /\ Len(tokens_calls[1].toks) = Len(positions)
              /\ scanner.position = positions[Len(positions)]

\* Three characters scanned in three calls, one of which returned an error.
C33_Witness ==
    /\ tokens_calls # <<>>
    /\ tokens_calls[1].tag = "Ok"
    /\ Len(scanner.source) = 3
    /\ Len(tokens_calls[1].toks) = 4
    /\ \E i \in 1..3 : tokens_calls[1].toks[i].tag = "Err"
\* The statements `parsed` are those of the tokens from self on, each
\* followed directly by a Newline token, further Newline tokens being
\* skipped after it.
RECURSIVE TerminatedByNewline(_, _)
TerminatedByNewline(self, parsed) ==
    IF parsed = <<>> THEN parser_is_at_end(self)
    ELSE \E result \in parser_statement_result(self) :
             /\ result.result = Head(parsed)
             /\ parser_peek(result.self) = Keyword("Newline")
             /\ TerminatedByNewline(SkipWhile(parser_advance(result.self),
                                              Keyword("Newline")),
                                    Tail(parsed))

\* C34: every statement parse returns as Ok was terminated by a Newline
\* token: a top-level statement whose tokens are followed directly by Eof,
\* or by any token other than Newline, is never returned as an Ok entry.
C34_StatementsEndWithNewline ==
    parse_calls # <<>>
    => /\ parse_calls[1].tag = "Ok"
          => TerminatedByNewline(ParserNew(parser.tokens), parse_calls[1].value)
       /\ (\E result \in parser_statement_result(ParserNew(parser.tokens)) :
               /\ ~parser_is_at_end(ParserNew(parser.tokens))
               /\ Returned(result)
               /\ parser_peek(result.self) # Keyword("Newline"))
          => ~(/\ parse_calls[1].tag = "Ok"
               /\ parse_calls[1].value # <<>>
               /\ parse_calls[1].value[1].tag = "Ok")

\* Three statements, each on a line of its own, were returned.
C34_Witness ==
    /\ parse_calls # <<>>
    /\ parse_calls[1].tag = "Ok"
    /\ Len(parse_calls[1].value) = 3
    /\ parse_calls[1].value[1].value.type = "TableRoll"
\* The tokens without their blank lines: without the Newline tokens at the
\* start and without those that follow a Newline directly.
RECURSIVE WithoutBlankLines(_, _)
WithoutBlankLines(toks, after_newline) ==
    IF toks = <<>> THEN <<>>
    ELSE IF Head(toks) = Keyword("Newline")
    THEN (IF after_newline THEN <<>> ELSE <<Head(toks)>>)
         \o WithoutBlankLines(Tail(toks), TRUE)
    ELSE <<Head(toks)>> \o WithoutBlankLines(Tail(toks), FALSE)

\* C35: blank lines are skipped by the parser wherever they occur at top
\* level: a run of Newline tokens without statement tokens between them,
\* before the first statement, between two statements or after the last,
\* contributes no entry to what parse returns: tokens whose statements are
\* all at top level parse to what they parse to without their blank lines.
C35_BlankLinesAreSkipped ==
    (/\ parse_calls # <<>>
     /\ \A i \in 1..Len(parser.tokens) :
            parser.tokens[i].type \notin {"Procedure", "Indent", "End"})
    => \A o \in parse(ParserNew(WithoutBlankLines(parser.tokens, TRUE))) :
           Returned(o) => parse_calls[1] = o.result

\* The targets of the arms in a token list, in source order: each Num or
\* NumRange that directly follows an Indent.
RECURSIVE ArmTargets(_, _)
ArmTargets(toks, i) ==
    IF i >= Len(toks) THEN <<>>
    ELSE IF toks[i].type = "Indent" /\ toks[i + 1].type \in {"Num", "NumRange"}
    THEN <<toks[i + 1]>> \o ArmTargets(toks, i + 1)
    ELSE ArmTargets(toks, i + 1)

\* A production was called on a parser whose first token is Roll.
RollWasParsedBy(method) ==
    /\ production_call # None
    /\ production_call[1].method = method
    /\ parser.tokens # <<>>
    /\ parser.tokens[1] = Keyword("Roll")

\* C36: at statement position a Roll followed by On parses as a TableRoll, a
\* Roll followed by a RollSpecifier parses as a MatchingRoll whose arms are
\* in source order, and a Roll followed by any other token is a ParserError;
\* at consequent position a Roll parses as a TableRoll, never as a
\* MatchingRoll or as a ParserError on the Roll itself.
C36_RollDispatchesOnTheNextToken ==
    /\ RollWasParsedBy("statement") =>
          LET result == production_call[1].result
              next == parser_peek_next(ParserNew(parser.tokens))
          IN  CASE next.type = "On" ->
                     /\ result.tag = "Ok" => result.value.type = "TableRoll"
                     /\ result.tag = "Err" => result.token # Keyword("Roll")
                [] next.type = "RollSpecifier" ->
                     /\ result.tag = "Err" => result.token # Keyword("Roll")
                     /\ result.tag = "Ok" =>
                           /\ result.value.type = "MatchingRoll"
                           /\ result.value.roll_specifier.base_roll_specifier = next
                           /\ [i \in 1..Len(result.value.arms) |->
                                  result.value.arms[i].target]
                                = ArmTargets(parser.tokens, 1)
                [] OTHER ->
                     /\ result.tag = "Err"
                     /\ result.error = "ParserError"
    /\ RollWasParsedBy("consequent") =>
          LET result == production_call[1].result IN
          /\ result.tag = "Ok" => result.value.type = "TableRoll"
          /\ result.tag = "Err" => result.token # Keyword("Roll")

\* A matching roll of two arms was parsed at statement position, and in its
\* second arm a Roll was parsed as a table roll.
C36_Witness ==
    /\ RollWasParsedBy("statement")
    /\ production_call[1].result.tag = "Ok"
    /\ production_call[1].result.value.type = "MatchingRoll"
    /\ Len(production_call[1].result.value.arms) = 2
    /\ production_call[1].result.value.arms[1].target = Num(1)
    /\ production_call[1].result.value.arms[2].target = NumRange(1, 2)
    /\ production_call[1].result.value.arms[2].consequent.type = "TableRoll"

\* modified_specifier was called on a parser whose first token is a roll
\* specifier.
SpecifierWasParsed ==
    /\ production_call # None
    /\ production_call[1].method = "modified_specifier"
    /\ parser_peek(ParserNew(parser.tokens)).type = "RollSpecifier"

\* The token after the roll specifier and the token after that one.
AfterSpecifier == parser_peek_next(ParserNew(parser.tokens))

AfterSign == parser_peek_next(parser_advance(ParserNew(parser.tokens)))

\* C37: modified_specifier returns the RollSpecifier token as the base; the
\* modifier is 0, and only the specifier is consumed, when neither Plus nor
\* Minus follows; it is n after Plus Num(n) and -n after Minus Num(n).
C37_ModifierFollowsTheSign ==
    SpecifierWasParsed =>
        LET result == production_call[1].result IN
        /\ AfterSpecifier.type \notin {"Plus", "Minus"} =>
              /\ result = OkParsed([base_roll_specifier |-> parser.tokens[1],
                                    modifier |-> 0])
              /\ parser.position = ParserNew(parser.tokens).position + 1
        /\ AfterSpecifier.type = "Plus" /\ AfterSign.type = "Num" =>
              result = OkParsed([base_roll_specifier |-> parser.tokens[1],
                                 modifier |-> AfterSign.n])
        /\ AfterSpecifier.type = "Minus" /\ AfterSign.type = "Num" =>
              result = OkParsed([base_roll_specifier |-> parser.tokens[1],
                                 modifier |-> -AfterSign.n])

\* 1d6 - 2 was parsed as a specifier of modifier -2.
C37_Witness ==
    /\ SpecifierWasParsed
    /\ AfterSpecifier = Keyword("Minus")
    /\ AfterSign = Num(2)
    /\ production_call[1].result.tag = "Ok"
    /\ production_call[1].result.value.modifier = -2

\* C38: when Plus or Minus follows the roll specifier and the token after
\* the sign is not a Num, modified_specifier returns a ParserError: it
\* returns no specifier of modifier 0 and leaves the token unconsumed.
C38_SignNeedsANumber ==
    (/\ SpecifierWasParsed
     /\ AfterSpecifier.type \in {"Plus", "Minus"}
     /\ AfterSign.type # "Num") =>
        /\ production_call[1].result.tag = "Err"
        /\ production_call[1].result.error = "ParserError"
        /\ parser.position <= ParserNew(parser.tokens).position + 2

====
